---- MODULE Spec2Model ----
(***************************************************************************)
(* A model of the findyourroot backend's mutation plane: the Firestore     *)
(* collections (people, users, suggestions, identity_claims,               *)
(* permission_requests) and the request handlers that read and write       *)
(* them.  Every handler is a process that performs its document-store      *)
(* calls one at a time; calls of different requests interleave freely.     *)
(* A RunTransaction body that reads through the transaction commits        *)
(* atomically with respect to the documents it read.                       *)
(***************************************************************************)
EXTENDS Integers, Sequences, FiniteSets, TLC

VARIABLES
    people,       \* collection "people":       id -> document
    users,        \* collection "users":        id -> document
    suggestions,  \* collection "suggestions":  id -> document
    claims,       \* collection "identity_claims": id -> document
    permreqs,     \* collection "permission_requests": id -> document
    procs,        \* the in-flight requests: handler position and locals
    nextPerson,   \* the next uuid handed out for a person document
    started,      \* number of requests started so far, a batch counting once per item
    execCount,    \* history: successful executeSuggestion runs per suggestion
    deletedOK,    \* history: persons whose DeletePerson request returned 200
    history,      \* history: the Like requests sent and the scrubs run to completion
    resp,         \* the response of the request that completed in the last step
    adminClients, \* SSEHandler.adminClients: the client ids that have a channel
    messageChan,  \* the channel of every admin stream: buffer and closed flag
    streams,      \* the AdminStream handlers: position, context, events written
    watchers,     \* the collection watchers: idle or inside broadcastToAdmins
    nextEvent     \* number of the next change event of the watched collections

\* the state of the event stream handler
sseVars == <<adminClients, messageChan, streams, watchers, nextEvent>>

vars == <<people, users, suggestions, claims, permreqs, procs, nextPerson,
          started, execCount, deletedOK, history, resp, sseVars>>

----------------------------------------------------------------------------
(* Bounds of the model *)

MaxPeople == 4
MaxSuggestions == 2
MaxClaims == 2
MaxRequests == 2
MaxOps == 2
\* the most lines of a text given to the bulk import
MaxLines == 3
\* suggestions in the store of the grouped view
MaxPending == 3
\* the capacity of a stream's channel (100 in AdminStream), scaled down
MaxBuffered == 2
\* the most change events the watchers see
MaxEvents == 3
\* the most writes the document store takes in one batch (500), scaled down
BatchLimit == 2

(* The empty string: "no id" in a string field *)
None == 0

PersonIds == 1..MaxPeople
SuggestionIds == 1..MaxSuggestions
ClaimIds == 1..MaxClaims
RequestIds == 1..MaxRequests
UserIds == {"admin", "coadmin", "editor", "contrib", "viewer"}
Procs == {1, 2}

----------------------------------------------------------------------------
(* Role lattice *)

RoleViewer == "viewer"
RoleContributor == "contributor"
RoleEditor == "editor"
RoleCoAdmin == "co-admin"
RoleAdmin == "admin"
Roles == {RoleViewer, RoleContributor, RoleEditor, RoleCoAdmin, RoleAdmin}

\* an approval right that editors have too
EditorsApprove(r) == r = RoleEditor \/ r = RoleCoAdmin \/ r = RoleAdmin

CanApprove(r) == r = RoleCoAdmin \/ r = RoleAdmin
\* a direct-edit right that only admins have
OnlyAdminEdits(r) == r = RoleAdmin

CanEditDirectly(r) == r = RoleEditor \/ r = RoleCoAdmin \/ r = RoleAdmin
CanManageUsers(r) == r = RoleAdmin
CanSuggest(r) == r = RoleContributor \/ r = RoleEditor \/ r = RoleCoAdmin \/ r = RoleAdmin

----------------------------------------------------------------------------
(* Document-store primitives *)

Range(s) == {s[i] : i \in 1..Len(s)}
Count(s, x) == Cardinality({i \in 1..Len(s) : s[i] = x})

\* firestore.ArrayUnion: append unless already present
ArrayUnion(s, x) == IF x \in Range(s) THEN s ELSE Append(s, x)
\* firestore.ArrayRemove: remove every occurrence
ArrayRemove(s, x) == SelectSeq(s, LAMBDA e : e # x)

\* the documents of a query, in document-id order
RECURSIVE SortedSeq(_)
SortedSeq(S) ==
    IF S = {} THEN <<>>
    ELSE LET m == CHOOSE x \in S : \A y \in S : x <= y
         IN <<m>> \o SortedSeq(S \ {m})

NoPerson == [exists |-> FALSE, name |-> "", children |-> <<>>, created_by |-> "",
             linked_user_id |-> "", liked_by |-> <<>>, likes_count |-> 0]
NoUser == [exists |-> FALSE, email |-> "", role |-> "", is_verified |-> FALSE,
           person_id |-> None]
NoSuggestion == [exists |-> FALSE, type |-> "", target_person_id |-> None, name |-> "",
                 status |-> "", user_id |-> "", reviewed_by |-> "", review_notes |-> ""]
NoClaim == [exists |-> FALSE, user_id |-> "", person_id |-> None, status |-> "",
            reviewed_by |-> "", review_notes |-> ""]
NoRequest == [exists |-> FALSE, user_id |-> "", requested_role |-> "", status |-> ""]

\* a claim as ClaimIdentity writes it
PendingClaim(user, person) ==
    [exists |-> TRUE, user_id |-> user, person_id |-> person, status |-> "pending",
     reviewed_by |-> "", review_notes |-> ""]

NewPerson(name, creator) ==
    [exists |-> TRUE, name |-> name, children |-> <<>>, created_by |-> creator,
     linked_user_id |-> "", liked_by |-> <<>>, likes_count |-> 0]

\* the bearer token of a logged-in user: the claims the middleware puts in the context
TokenOf(u) == [user_id |-> u, role |-> users[u].role]

Idle == [pc |-> "idle"]
\* a new request takes the lowest free slot (the slots are interchangeable)
FreeSlot(r) == procs[r].pc = "idle" /\ \A q \in Procs : q < r => procs[q].pc # "idle"
NoHistory == [likes |-> {}, readAllDone |-> 0, scrubbed |-> {}, imported |-> {},
              dropped |-> {}, tokens |-> {}, failed |-> {}]
NoResp == [op |-> "", code |-> 0, ref |-> None, actor |-> ""]
Response(op, code, ref, actor) == [op |-> op, code |-> code, ref |-> ref, actor |-> actor]
----------------------------------------------------------------------------
(* Suggestion workflow: ReviewSuggestion and BatchReviewSuggestions         *)

\* a status check that lets an approved suggestion through again
IsPendingUnlessRejected(doc) == doc.status # "rejected"

\* the guard `Status != "pending"` of both review paths
IsPending(doc) == doc.status = "pending"

NewStatus(approved) == IF approved THEN "approved" ELSE "rejected"

\* the status update both review paths write after a successful execution
ReviewedSuggestion(doc, newStatus, reviewer, notes) ==
    [doc EXCEPT !.status = newStatus, !.reviewed_by = reviewer, !.review_notes = notes]

\* a review process that has read a pending suggestion
ReviewProc(op, tok, approved, notes, sid, todo, success, fail) ==
    [pc |-> IF approved THEN "exec" ELSE "update", op |-> op, tok |-> tok,
     approved |-> approved, notes |-> notes, sid |-> sid, s |-> suggestions[sid],
     todo |-> todo, success |-> success, fail |-> fail, plan |-> <<>>]

\* ReviewSuggestion up to the pending check: gate, Get, status test
ReviewSuggestion_Get(r, u, sid, approved, notes) ==
    /\ FreeSlot(r)
    /\ started < MaxOps
    /\ users[u].exists
    /\ started' = started + 1
    /\ LET tok == TokenOf(u) IN
       IF ~CanApprove(tok.role)
       THEN /\ resp' = Response("ReviewSuggestion", 403, sid, u)
            /\ procs' = procs
       ELSE IF ~suggestions[sid].exists
       THEN /\ resp' = Response("ReviewSuggestion", 404, sid, u)
            /\ procs' = procs
       ELSE IF ~IsPending(suggestions[sid])
       THEN /\ resp' = Response("ReviewSuggestion", 400, sid, u)
            /\ procs' = procs
       ELSE /\ resp' = NoResp
            /\ procs' = [procs EXCEPT ![r] =
                   ReviewProc("ReviewSuggestion", tok, approved, notes, sid, <<>>, 0, 0)]
    /\ UNCHANGED <<people, users, suggestions, claims, permreqs, nextPerson,
                   execCount, deletedOK, history, sseVars>>

\* BatchReviewSuggestions: bind the request, reject an empty id list
BatchReviewSuggestions_Start(r, u, ids, approved, notes) ==
    /\ FreeSlot(r)
    /\ started < MaxOps
    /\ started + Len(ids) <= MaxOps
    /\ users[u].exists
    /\ started' = IF Len(ids) = 0 THEN started + 1 ELSE started + Len(ids)
    /\ LET tok == TokenOf(u) IN
       IF ~CanApprove(tok.role)
       THEN /\ resp' = Response("BatchReviewSuggestions", 403, None, u)
            /\ procs' = procs
       ELSE IF Len(ids) = 0
       THEN /\ resp' = Response("BatchReviewSuggestions", 400, None, u)
            /\ procs' = procs
       ELSE /\ resp' = NoResp
            /\ procs' = [procs EXCEPT ![r] =
                   [pc |-> "get", op |-> "BatchReviewSuggestions", tok |-> tok,
                    approved |-> approved, notes |-> notes, sid |-> None,
                    s |-> NoSuggestion, todo |-> ids, success |-> 0, fail |-> 0,
                    plan |-> <<>>]]
    /\ UNCHANGED <<people, users, suggestions, claims, permreqs, nextPerson,
                   execCount, deletedOK, history, sseVars>>

\* one iteration of the batch loop up to the pending check
BatchReviewSuggestions_Get(r) ==
    LET p == procs[r] IN
    /\ p.pc = "get"
    /\ Len(p.todo) > 0
    /\ LET sid == Head(p.todo)
           rest == Tail(p.todo) IN
       IF ~suggestions[sid].exists
       THEN procs' = [procs EXCEPT ![r] = [p EXCEPT !.todo = rest, !.fail = @ + 1]]
       ELSE IF ~IsPending(suggestions[sid])
       THEN procs' = [procs EXCEPT ![r] = [p EXCEPT !.todo = rest]]
       ELSE procs' = [procs EXCEPT ![r] =
                ReviewProc(p.op, p.tok, p.approved, p.notes, sid, rest, p.success, p.fail)]
    /\ resp' = NoResp
    /\ UNCHANGED <<people, users, suggestions, claims, permreqs, nextPerson,
                   started, execCount, deletedOK, history, sseVars>>

\* a batch answer that is an error as soon as one item failed
BatchReviewSuggestions_ErrorOnAnyFailure(r) ==
    LET p == procs[r] IN
    /\ p.pc = "get"
    /\ Len(p.todo) = 0
    /\ resp' = [op |-> p.op, code |-> IF p.fail > 0 THEN 500 ELSE 200,
                ref |-> None, actor |-> p.tok.user_id,
                success_count |-> p.success, fail_count |-> p.fail]
    /\ procs' = [procs EXCEPT ![r] = Idle]
    /\ UNCHANGED <<people, users, suggestions, claims, permreqs, nextPerson,
                   started, execCount, deletedOK, history, sseVars>>

\* the batch loop is over: all-failed is an error, anything else a 200
BatchReviewSuggestions_Respond(r) ==
    LET p == procs[r] IN
    /\ p.pc = "get"
    /\ Len(p.todo) = 0
    /\ resp' = [op |-> p.op, code |-> IF p.fail > 0 /\ p.success = 0 THEN 500 ELSE 200,
                ref |-> None, actor |-> p.tok.user_id,
                success_count |-> p.success, fail_count |-> p.fail]
    /\ procs' = [procs EXCEPT ![r] = Idle]
    /\ UNCHANGED <<people, users, suggestions, claims, permreqs, nextPerson,
                   started, execCount, deletedOK, history, sseVars>>

\* an error of executeSuggestion that the review ignores
ExecFailureIgnored(r) ==
    /\ procs' = [procs EXCEPT ![r].pc = "update"]
    /\ resp' = NoResp

\* executeSuggestion returned an error
ExecFailed(r) ==
    LET p == procs[r] IN
    IF p.op = "ReviewSuggestion"
    THEN /\ procs' = [procs EXCEPT ![r] = Idle]
         /\ resp' = Response(p.op, 500, p.sid, p.tok.user_id)
    ELSE /\ procs' = [procs EXCEPT ![r] = [p EXCEPT !.pc = "get", !.fail = @ + 1]]
         /\ resp' = NoResp

\* executeSuggestion returned nil
ExecSucceeded(r) ==
    /\ procs' = [procs EXCEPT ![r].pc = "update"]
    /\ execCount' = [execCount EXCEPT ![procs[r].sid] = @ + 1]
    /\ resp' = NoResp

\* a children list that the new child is not added to
ChildrenUnchanged(parent, id) == parent.children

\* executeAdd's new children list for the parent it read
AddedChildren(parent, id) == Append(parent.children, id)

executeAdd(r) ==
    LET p == procs[r]
        s == p.s
        id == nextPerson IN
    /\ p.pc = "exec"
    /\ s.type = "add"
    /\ nextPerson <= MaxPeople
    /\ IF s.target_person_id # None /\ ~people[s.target_person_id].exists
       THEN /\ ExecFailed(r)
            /\ UNCHANGED <<people, nextPerson, execCount, sseVars>>
       ELSE /\ people' =
                 IF s.target_person_id # None
                 THEN [people EXCEPT
                         ![id] = NewPerson(s.name, s.user_id),
                         ![s.target_person_id].children =
                             AddedChildren(people[s.target_person_id], id)]
                 ELSE [people EXCEPT ![id] = NewPerson(s.name, s.user_id)]
            /\ nextPerson' = nextPerson + 1
            /\ ExecSucceeded(r)
    /\ UNCHANGED <<users, suggestions, claims, permreqs, started, deletedOK, history, sseVars>>

executeEdit(r) ==
    LET p == procs[r]
        s == p.s IN
    /\ p.pc = "exec"
    /\ s.type = "edit"
    /\ IF ~people[s.target_person_id].exists
       THEN /\ ExecFailed(r)
            /\ UNCHANGED <<people, execCount, sseVars>>
       ELSE /\ people' = [people EXCEPT ![s.target_person_id].name =
                             IF s.name # "" THEN s.name ELSE @]
            /\ ExecSucceeded(r)
    /\ UNCHANGED <<users, suggestions, claims, permreqs, nextPerson, started, deletedOK, history, sseVars>>

\* executeDelete: the Get of the person to delete
executeDelete_Get(r) ==
    LET p == procs[r]
        s == p.s IN
    /\ p.pc = "exec"
    /\ s.type = "delete"
    /\ IF ~people[s.target_person_id].exists
       THEN ExecFailed(r)
       ELSE /\ procs' = [procs EXCEPT ![r].pc = "del_query"]
            /\ resp' = NoResp
    /\ UNCHANGED <<people, users, suggestions, claims, permreqs, nextPerson,
                   started, execCount, deletedOK, history, sseVars>>

\* the persons whose children contain pid ("array-contains" query)
ParentsOf(pid) == {q \in PersonIds : people[q].exists /\ pid \in Range(people[q].children)}

\* executeDelete: the parents query inside the transaction body (a plain query,
\* not a transactional read) and the children lists it computes
executeDelete_Query(r) ==
    LET p == procs[r]
        t == p.s.target_person_id IN
    /\ p.pc = "del_query"
    /\ procs' = [procs EXCEPT ![r] =
           [p EXCEPT !.pc = "del_commit",
                     !.plan = [q \in ParentsOf(t) |-> ArrayRemove(people[q].children, t)]]]
    /\ resp' = NoResp
    /\ UNCHANGED <<people, users, suggestions, claims, permreqs, nextPerson,
                   started, execCount, deletedOK, history, sseVars>>

\* executeDelete: the commit of the buffered parent updates and the delete
executeDelete_Commit(r) ==
    LET p == procs[r]
        t == p.s.target_person_id IN
    /\ p.pc = "del_commit"
    /\ IF \E q \in DOMAIN p.plan : ~people[q].exists
       THEN /\ ExecFailed(r)
            /\ UNCHANGED <<people, execCount, sseVars>>
       ELSE /\ people' = [q \in PersonIds |->
                   IF q = t THEN NoPerson
                   ELSE IF q \in DOMAIN p.plan
                        THEN [people[q] EXCEPT !.children = p.plan[q]]
                        ELSE people[q]]
            /\ ExecSucceeded(r)
    /\ UNCHANGED <<users, suggestions, claims, permreqs, nextPerson, started, deletedOK, history, sseVars>>

\* the status update that ends a review of one suggestion
UpdateSuggestionStatus(r) ==
    LET p == procs[r] IN
    /\ p.pc = "update"
    /\ suggestions' = [suggestions EXCEPT ![p.sid] =
           ReviewedSuggestion(@, NewStatus(p.approved), p.tok.user_id, p.notes)]
    /\ IF p.op = "ReviewSuggestion"
       THEN /\ procs' = [procs EXCEPT ![r] = Idle]
            /\ resp' = Response(p.op, 200, p.sid, p.tok.user_id)
       ELSE /\ procs' = [procs EXCEPT ![r] = [p EXCEPT !.pc = "get", !.success = @ + 1]]
            /\ resp' = NoResp
    /\ UNCHANGED <<people, users, claims, permreqs, nextPerson, started,
                   execCount, deletedOK, history, sseVars>>

----------------------------------------------------------------------------
(* CreateSuggestion *)

\* CreateSuggestion up to the target check: gate, validation, Get of the target
CreateSuggestion_Check(r, u, type, target, name) ==
    /\ FreeSlot(r)
    /\ started < MaxOps
    /\ users[u].exists
    /\ started' = started + 1
    /\ LET tok == TokenOf(u) IN
       IF ~CanSuggest(tok.role)
       THEN /\ resp' = Response("CreateSuggestion", 403, target, u)
            /\ procs' = procs
       ELSE IF \/ type = "add" /\ name = ""
               \/ type \in {"edit", "delete"} /\ target = None
       THEN /\ resp' = Response("CreateSuggestion", 400, target, u)
            /\ procs' = procs
       ELSE IF type \in {"edit", "delete"} /\ ~people[target].exists
       THEN /\ resp' = Response("CreateSuggestion", 404, target, u)
            /\ procs' = procs
       ELSE /\ resp' = NoResp
            /\ procs' = [procs EXCEPT ![r] =
                   [pc |-> "sugg_set", op |-> "CreateSuggestion", tok |-> tok,
                    type |-> type, target |-> target, name |-> name]]
    /\ UNCHANGED <<people, users, suggestions, claims, permreqs, nextPerson,
                   execCount, deletedOK, history, sseVars>>

FreeSuggestionIds == {s \in SuggestionIds : ~suggestions[s].exists}

\* CreateSuggestion: the Set of the new pending suggestion
CreateSuggestion_Set(r) ==
    LET p == procs[r] IN
    /\ p.pc = "sugg_set"
    /\ FreeSuggestionIds # {}
    /\ LET id == CHOOSE s \in FreeSuggestionIds : \A o \in FreeSuggestionIds : s <= o IN
       /\ suggestions' = [suggestions EXCEPT ![id] =
              [exists |-> TRUE, type |-> p.type, target_person_id |-> p.target,
               name |-> p.name, status |-> "pending", user_id |-> p.tok.user_id,
               reviewed_by |-> "", review_notes |-> ""]]
       /\ resp' = Response(p.op, 201, id, p.tok.user_id)
    /\ procs' = [procs EXCEPT ![r] = Idle]
    /\ UNCHANGED <<people, users, claims, permreqs, nextPerson, started,
                   execCount, deletedOK, history, sseVars>>

----------------------------------------------------------------------------
(* DeletePerson and the person-deletion cascade (ReferentialIntegrityService) *)

\* the ownership rule without the check
AnybodyMayModify(person, tok) == TRUE

\* Update/Delete ownership rule: the creator or an admin
MayModify(person, tok) == person.created_by = tok.user_id \/ tok.role = RoleAdmin

\* the next phase of the cascade, skipping the update loop of an empty query
CascadeProc(p, pc, todo) == [p EXCEPT !.pc = pc, !.todo = SortedSeq(todo)]

\* DeletePerson up to the ownership check: gate, Get, authorization
DeletePerson_Get(r, u, pid) ==
    /\ FreeSlot(r)
    /\ started < MaxOps
    /\ users[u].exists
    /\ started' = started + 1
    /\ LET tok == TokenOf(u) IN
       IF ~CanEditDirectly(tok.role)
       THEN /\ resp' = Response("DeletePerson", 403, pid, u)
            /\ procs' = procs
       ELSE IF ~people[pid].exists
       THEN /\ resp' = Response("DeletePerson", 404, pid, u)
            /\ procs' = procs
       ELSE IF ~MayModify(people[pid], tok)
       THEN /\ resp' = Response("DeletePerson", 403, pid, u)
            /\ procs' = procs
       ELSE /\ resp' = NoResp
            /\ procs' = [procs EXCEPT ![r] =
                   [pc |-> "clear_links", op |-> "DeletePerson", tok |-> tok,
                    pid |-> pid, todo |-> <<>>]]
    /\ UNCHANGED <<people, users, suggestions, claims, permreqs, nextPerson,
                   execCount, deletedOK, history, sseVars>>

\* step 1: users whose person_id field names the person lose it
clearUserPersonLinks(r) ==
    LET p == procs[r] IN
    /\ p.pc = "clear_links"
    /\ users' = [u \in UserIds |->
           IF users[u].exists /\ users[u].person_id = p.pid
           THEN [users[u] EXCEPT !.person_id = None]
           ELSE users[u]]
    /\ procs' = [procs EXCEPT ![r].pc = "parents_query"]
    /\ resp' = NoResp
    /\ UNCHANGED <<people, suggestions, claims, permreqs, nextPerson, started,
                   execCount, deletedOK, history, sseVars>>

\* step 2: the query for the parents
removeFromParentChildren_Query(r) ==
    LET p == procs[r] IN
    /\ p.pc = "parents_query"
    /\ procs' = [procs EXCEPT ![r] = CascadeProc(p, "parents_update", ParentsOf(p.pid))]
    /\ resp' = NoResp
    /\ UNCHANGED <<people, users, suggestions, claims, permreqs, nextPerson,
                   started, execCount, deletedOK, history, sseVars>>

\* step 2: ArrayRemove on one parent (a failed update is logged and skipped)
removeFromParentChildren_Update(r) ==
    LET p == procs[r] IN
    /\ p.pc = "parents_update"
    /\ Len(p.todo) > 0
    /\ LET q == Head(p.todo) IN
       people' = IF people[q].exists
                 THEN [people EXCEPT ![q].children = ArrayRemove(@, p.pid)]
                 ELSE people
    /\ procs' = [procs EXCEPT ![r].todo = Tail(p.todo)]
    /\ resp' = NoResp
    /\ UNCHANGED <<users, suggestions, claims, permreqs, nextPerson, started,
                   execCount, deletedOK, history, sseVars>>

PendingSuggestionsFor(pid) ==
    {s \in SuggestionIds : /\ suggestions[s].exists
                           /\ suggestions[s].target_person_id = pid
                           /\ suggestions[s].status = "pending"}

\* step 4: the query for the pending suggestions that target the person
invalidateSuggestionsForPerson_Query(r) ==
    LET p == procs[r] IN
    /\ p.pc = "parents_update"
    /\ Len(p.todo) = 0
    /\ procs' = [procs EXCEPT ![r] =
           CascadeProc(p, "sugg_update", PendingSuggestionsFor(p.pid))]
    /\ resp' = NoResp
    /\ UNCHANGED <<people, users, suggestions, claims, permreqs, nextPerson,
                   started, execCount, deletedOK, history, sseVars>>

\* the auto-rejection the cascade writes to a document its query returned
AutoRejected(doc) == [doc EXCEPT !.status = "rejected", !.review_notes = "auto"]

\* step 4: the update of one suggestion the query returned
invalidateSuggestionsForPerson_Update(r) ==
    LET p == procs[r] IN
    /\ p.pc = "sugg_update"
    /\ Len(p.todo) > 0
    /\ suggestions' = [suggestions EXCEPT ![Head(p.todo)] = AutoRejected(@)]
    /\ procs' = [procs EXCEPT ![r].todo = Tail(p.todo)]
    /\ resp' = NoResp
    /\ UNCHANGED <<people, users, claims, permreqs, nextPerson, started,
                   execCount, deletedOK, history, sseVars>>

PendingClaimsFor(pid) ==
    {c \in ClaimIds : /\ claims[c].exists
                      /\ claims[c].person_id = pid
                      /\ claims[c].status = "pending"}

\* step 5: the query for the pending identity claims on the person
rejectIdentityClaimsForPerson_Query(r) ==
    LET p == procs[r] IN
    /\ p.pc = "sugg_update"
    /\ Len(p.todo) = 0
    /\ procs' = [procs EXCEPT ![r] =
           CascadeProc(p, "claims_update", PendingClaimsFor(p.pid))]
    /\ resp' = NoResp
    /\ UNCHANGED <<people, users, suggestions, claims, permreqs, nextPerson,
                   started, execCount, deletedOK, history, sseVars>>

\* step 5: the update of one claim the query returned
rejectIdentityClaimsForPerson_Update(r) ==
    LET p == procs[r] IN
    /\ p.pc = "claims_update"
    /\ Len(p.todo) > 0
    /\ claims' = [claims EXCEPT ![Head(p.todo)] = AutoRejected(@)]
    /\ procs' = [procs EXCEPT ![r].todo = Tail(p.todo)]
    /\ resp' = NoResp
    /\ UNCHANGED <<people, users, suggestions, permreqs, nextPerson, started,
                   execCount, deletedOK, history, sseVars>>

\* a cascade that gives up, with an error response, when a store call fails
OnPersonDeleted_FailureAborts(r) ==
    LET p == procs[r] IN
    /\ p.pc \in {"clear_links", "parents_query", "parents_update", "sugg_update",
                 "claims_update"}
    /\ p.pc = "claims_update" => Len(p.todo) > 0
    /\ procs' = [procs EXCEPT ![r] = Idle]
    /\ history' = [history EXCEPT !.failed = @ \cup {p.pid}]
    /\ resp' = Response(p.op, 500, p.pid, p.tok.user_id)
    /\ UNCHANGED <<people, users, suggestions, claims, permreqs, nextPerson, started,
                   execCount, deletedOK, sseVars>>

\* a store call of the cascade returns an error: the failure is logged (and
\* recorded in history.failed); a failed query ends its step with nothing
\* updated, a failed update is skipped, and the cascade goes on
OnPersonDeleted_Failure(r) ==
    LET p == procs[r] IN
    /\ p.pc \in {"clear_links", "parents_query", "parents_update", "sugg_update",
                 "claims_update"}
    /\ p.pc = "claims_update" => Len(p.todo) > 0
    /\ procs' = [procs EXCEPT ![r] =
           CASE p.pc = "clear_links" -> [p EXCEPT !.pc = "parents_query"]
             [] p.pc = "parents_query" -> [p EXCEPT !.pc = "parents_update", !.todo = <<>>]
             [] p.pc = "parents_update" /\ Len(p.todo) = 0 ->
                    [p EXCEPT !.pc = "sugg_update", !.todo = <<>>]
             [] p.pc = "sugg_update" /\ Len(p.todo) = 0 ->
                    [p EXCEPT !.pc = "claims_update", !.todo = <<>>]
             [] OTHER -> [p EXCEPT !.todo = Tail(@)]]
    /\ history' = [history EXCEPT !.failed = @ \cup {p.pid}]
    /\ resp' = NoResp
    /\ UNCHANGED <<people, users, suggestions, claims, permreqs, nextPerson, started,
                   execCount, deletedOK, sseVars>>

\* the primary delete fails: the person stays and the caller gets an error
DeletePerson_DeleteFails(r) ==
    LET p == procs[r] IN
    /\ p.pc = "claims_update"
    /\ Len(p.todo) = 0
    /\ procs' = [procs EXCEPT ![r] = Idle]
    /\ resp' = Response(p.op, 500, p.pid, p.tok.user_id)
    /\ UNCHANGED <<people, users, suggestions, claims, permreqs, nextPerson, started,
                   execCount, deletedOK, history, sseVars>>

\* the primary delete, after the cascade
DeletePerson_Delete(r) ==
    LET p == procs[r] IN
    /\ p.pc = "claims_update"
    /\ Len(p.todo) = 0
    /\ people' = [people EXCEPT ![p.pid] = NoPerson]
    /\ deletedOK' = deletedOK \cup {p.pid}
    /\ procs' = [procs EXCEPT ![r] = Idle]
    /\ resp' = Response(p.op, 200, p.pid, p.tok.user_id)
    /\ UNCHANGED <<users, suggestions, claims, permreqs, nextPerson, started,
                   execCount, history, sseVars>>

----------------------------------------------------------------------------
(* CreatePerson *)

\* the response to a create: the new id and the parent it was created under
Created(code, id, actor, parent) ==
    [op |-> "CreatePerson", code |-> code, ref |-> id, actor |-> actor, parent |-> parent]

\* CreatePerson called with the token tok: gate (the role is the token's),
\* binding, and either the transaction that reads the parent, sets the child
\* and adds it to the parent's children, or a plain Set
CreatePersonAs(r, tok, parent, name) ==
    /\ FreeSlot(r)
    /\ started < MaxOps
    /\ nextPerson <= MaxPeople
    /\ started' = started + 1
    /\ procs' = procs
    /\ LET u == tok.user_id
           id == nextPerson IN
       IF ~CanEditDirectly(tok.role)
       THEN /\ resp' = Created(403, None, u, parent)
            /\ UNCHANGED <<people, nextPerson, sseVars>>
       ELSE IF name = ""
       THEN /\ resp' = Created(400, None, u, parent)
            /\ UNCHANGED <<people, nextPerson, sseVars>>
       ELSE IF parent # None /\ ~people[parent].exists
       THEN /\ resp' = Created(500, None, u, parent)
            /\ UNCHANGED <<people, nextPerson, sseVars>>
       ELSE /\ people' =
                 IF parent # None
                 THEN [people EXCEPT ![id] = NewPerson(name, tok.user_id),
                                     ![parent].children = ArrayUnion(@, id)]
                 ELSE [people EXCEPT ![id] = NewPerson(name, tok.user_id)]
            /\ nextPerson' = nextPerson + 1
            /\ resp' = Created(201, id, u, parent)
    /\ UNCHANGED <<users, suggestions, claims, permreqs, execCount, deletedOK, history, sseVars>>

\* CreatePerson called by user u with a token of u's role in the store
CreatePerson(r, u, parent, name) ==
    /\ users[u].exists
    /\ CreatePersonAs(r, TokenOf(u), parent, name)

----------------------------------------------------------------------------
(* Identity claims and links: ClaimIdentity, ReviewIdentityClaim,            *)
(* UnlinkIdentity, LinkUserToPerson                                          *)

\* the persons whose linked_user_id is u (query on people)
LinkedPersons(u) == {q \in PersonIds : people[q].exists /\ people[q].linked_user_id = u}

\* the pending identity claims of user u (query on identity_claims)
PendingClaimsOf(u) ==
    {c \in ClaimIds : /\ claims[c].exists
                      /\ claims[c].user_id = u
                      /\ claims[c].status = "pending"}

FreeClaimIds == {c \in ClaimIds : ~claims[c].exists}

\* ClaimIdentity: arrival and the query for a person already linked to the caller
ClaimIdentity(r, u, pid) ==
    /\ FreeSlot(r)
    /\ started < MaxOps
    /\ users[u].exists
    /\ started' = started + 1
    /\ IF LinkedPersons(u) # {}
       THEN /\ resp' = Response("ClaimIdentity", 400, pid, u)
            /\ procs' = procs
       ELSE /\ resp' = NoResp
            /\ procs' = [procs EXCEPT ![r] =
                   [pc |-> "claim_person", op |-> "ClaimIdentity", tok |-> TokenOf(u),
                    pid |-> pid]]
    /\ UNCHANGED <<people, users, suggestions, claims, permreqs, nextPerson,
                   execCount, deletedOK, history, sseVars>>

\* ClaimIdentity: the Get of the person and the test that nobody is linked to it
ClaimIdentity_GetPerson(r) ==
    LET p == procs[r] IN
    /\ p.pc = "claim_person"
    /\ IF ~people[p.pid].exists
       THEN /\ resp' = Response(p.op, 404, p.pid, p.tok.user_id)
            /\ procs' = [procs EXCEPT ![r] = Idle]
       ELSE IF people[p.pid].linked_user_id # ""
       THEN /\ resp' = Response(p.op, 400, p.pid, p.tok.user_id)
            /\ procs' = [procs EXCEPT ![r] = Idle]
       ELSE /\ resp' = NoResp
            /\ procs' = [procs EXCEPT ![r].pc = "claim_pending"]
    /\ UNCHANGED <<people, users, suggestions, claims, permreqs, nextPerson,
                   started, execCount, deletedOK, history, sseVars>>

\* ClaimIdentity: the query for a pending claim of the caller
ClaimIdentity_PendingQuery(r) ==
    LET p == procs[r] IN
    /\ p.pc = "claim_pending"
    /\ IF PendingClaimsOf(p.tok.user_id) # {}
       THEN /\ resp' = Response(p.op, 400, p.pid, p.tok.user_id)
            /\ procs' = [procs EXCEPT ![r] = Idle]
       ELSE /\ resp' = NoResp
            /\ procs' = [procs EXCEPT ![r].pc = "claim_set"]
    /\ UNCHANGED <<people, users, suggestions, claims, permreqs, nextPerson,
                   started, execCount, deletedOK, history, sseVars>>

\* ClaimIdentity: the Set of the new pending claim
ClaimIdentity_Set(r) ==
    LET p == procs[r] IN
    /\ p.pc = "claim_set"
    /\ FreeClaimIds # {}
    /\ LET id == CHOOSE c \in FreeClaimIds : \A o \in FreeClaimIds : c <= o IN
       /\ claims' = [claims EXCEPT ![id] = PendingClaim(p.tok.user_id, p.pid)]
       /\ resp' = Response(p.op, 201, id, p.tok.user_id)
    /\ procs' = [procs EXCEPT ![r] = Idle]
    /\ UNCHANGED <<people, users, suggestions, permreqs, nextPerson, started,
                   execCount, deletedOK, history, sseVars>>

\* ReviewIdentityClaim up to the pending check: gate, Get, status test
ReviewIdentityClaim_Get(r, u, cid, approved, notes) ==
    /\ FreeSlot(r)
    /\ started < MaxOps
    /\ users[u].exists
    /\ started' = started + 1
    /\ LET tok == TokenOf(u) IN
       IF ~CanManageUsers(tok.role)
       THEN /\ resp' = Response("ReviewIdentityClaim", 403, cid, u)
            /\ procs' = procs
       ELSE IF ~claims[cid].exists
       THEN /\ resp' = Response("ReviewIdentityClaim", 404, cid, u)
            /\ procs' = procs
       ELSE IF claims[cid].status # "pending"
       THEN /\ resp' = Response("ReviewIdentityClaim", 400, cid, u)
            /\ procs' = procs
       ELSE /\ resp' = NoResp
            /\ procs' = [procs EXCEPT ![r] =
                   [pc |-> "claim_commit", op |-> "ReviewIdentityClaim", tok |-> tok,
                    cid |-> cid, claim |-> claims[cid], approved |-> approved,
                    notes |-> notes]]
    /\ UNCHANGED <<people, users, suggestions, claims, permreqs, nextPerson,
                   execCount, deletedOK, history, sseVars>>

\* the three updates issued one after the other without a transaction: the
\* claim is written even when a later update finds its document missing
ReviewIdentityClaim_NoTransaction(r) ==
    LET p == procs[r]
        c == p.claim IN
    /\ p.pc = "claim_commit"
    /\ procs' = [procs EXCEPT ![r] = Idle]
    /\ claims' = [claims EXCEPT ![p.cid] =
           [@ EXCEPT !.status = NewStatus(p.approved),
                     !.reviewed_by = p.tok.user_id,
                     !.review_notes = p.notes]]
    /\ IF p.approved /\ (~users[c.user_id].exists \/ ~people[c.person_id].exists)
       THEN /\ resp' = Response(p.op, 500, p.cid, p.tok.user_id)
            /\ UNCHANGED <<people, users, sseVars>>
       ELSE /\ users' = IF p.approved
                        THEN [users EXCEPT ![c.user_id].is_verified = TRUE]
                        ELSE users
            /\ people' = IF p.approved
                         THEN [people EXCEPT ![c.person_id].linked_user_id = c.user_id]
                         ELSE people
            /\ resp' = Response(p.op, 200, p.cid, p.tok.user_id)
    /\ UNCHANGED <<suggestions, permreqs, nextPerson, started, execCount,
                   deletedOK, history, sseVars>>

\* ReviewIdentityClaim: the transaction of blind updates (claim; on approval
\* also the user's is_verified and the person's linked_user_id)
ReviewIdentityClaim_Commit(r) ==
    LET p == procs[r]
        c == p.claim IN
    /\ p.pc = "claim_commit"
    /\ procs' = [procs EXCEPT ![r] = Idle]
    /\ IF p.approved /\ (~users[c.user_id].exists \/ ~people[c.person_id].exists)
       THEN /\ resp' = Response(p.op, 500, p.cid, p.tok.user_id)
            /\ UNCHANGED <<people, users, claims, sseVars>>
       ELSE /\ claims' = [claims EXCEPT ![p.cid] =
                   [@ EXCEPT !.status = NewStatus(p.approved),
                             !.reviewed_by = p.tok.user_id,
                             !.review_notes = p.notes]]
            /\ users' = IF p.approved
                        THEN [users EXCEPT ![c.user_id].is_verified = TRUE]
                        ELSE users
            /\ people' = IF p.approved
                         THEN [people EXCEPT ![c.person_id].linked_user_id = c.user_id]
                         ELSE people
            /\ resp' = Response(p.op, 200, p.cid, p.tok.user_id)
    /\ UNCHANGED <<suggestions, permreqs, nextPerson, started, execCount,
                   deletedOK, history, sseVars>>

\* UnlinkIdentity: gate and the Limit(1) query for a person linked to the user
UnlinkIdentity_Query(r, u, target) ==
    /\ FreeSlot(r)
    /\ started < MaxOps
    /\ users[u].exists
    /\ started' = started + 1
    /\ LET tok == TokenOf(u) IN
       IF ~CanManageUsers(tok.role)
       THEN /\ resp' = Response("UnlinkIdentity", 403, None, u)
            /\ procs' = procs
       ELSE IF LinkedPersons(target) = {}
       THEN /\ resp' = Response("UnlinkIdentity", 400, None, u)
            /\ procs' = procs
       ELSE /\ resp' = NoResp
            /\ \E q \in LinkedPersons(target) :
                 procs' = [procs EXCEPT ![r] =
                    [pc |-> "unlink_update", op |-> "UnlinkIdentity", tok |-> tok,
                     pid |-> q]]
    /\ UNCHANGED <<people, users, suggestions, claims, permreqs, nextPerson,
                   execCount, deletedOK, history, sseVars>>

\* UnlinkIdentity: the Update that clears the person's linked_user_id
UnlinkIdentity_Update(r) ==
    LET p == procs[r] IN
    /\ p.pc = "unlink_update"
    /\ procs' = [procs EXCEPT ![r] = Idle]
    /\ IF ~people[p.pid].exists
       THEN /\ resp' = Response(p.op, 500, p.pid, p.tok.user_id)
            /\ people' = people
       ELSE /\ resp' = Response(p.op, 200, p.pid, p.tok.user_id)
            /\ people' = [people EXCEPT ![p.pid].linked_user_id = ""]
    /\ UNCHANGED <<users, suggestions, claims, permreqs, nextPerson, started,
                   execCount, deletedOK, history, sseVars>>

\* LinkUserToPerson: gate (an admin, or a co-admin linking themselves) and
\* the Get of the user
LinkUserToPerson(r, u, target, pid) ==
    /\ FreeSlot(r)
    /\ started < MaxOps
    /\ users[u].exists
    /\ started' = started + 1
    /\ LET tok == TokenOf(u) IN
       IF ~CanApprove(tok.role)
          \/ ~(tok.role = RoleAdmin \/ (tok.role = RoleCoAdmin /\ u = target))
       THEN /\ resp' = Response("LinkUserToPerson", 403, pid, u)
            /\ procs' = procs
       ELSE IF ~users[target].exists
       THEN /\ resp' = Response("LinkUserToPerson", 404, pid, u)
            /\ procs' = procs
       ELSE /\ resp' = NoResp
            /\ procs' = [procs EXCEPT ![r] =
                   [pc |-> "link_query", op |-> "LinkUserToPerson", tok |-> tok,
                    target |-> target, pid |-> pid]]
    /\ UNCHANGED <<people, users, suggestions, claims, permreqs, nextPerson,
                   execCount, deletedOK, history, sseVars>>

\* LinkUserToPerson: the query for a person already linked to the user
LinkUserToPerson_LinkQuery(r) ==
    LET p == procs[r] IN
    /\ p.pc = "link_query"
    /\ IF LinkedPersons(p.target) # {}
       THEN /\ resp' = Response(p.op, 400, p.pid, p.tok.user_id)
            /\ procs' = [procs EXCEPT ![r] = Idle]
       ELSE /\ resp' = NoResp
            /\ procs' = [procs EXCEPT ![r].pc = "link_person"]
    /\ UNCHANGED <<people, users, suggestions, claims, permreqs, nextPerson,
                   started, execCount, deletedOK, history, sseVars>>

\* LinkUserToPerson: the Get of the person and the test that nobody is linked to it
LinkUserToPerson_GetPerson(r) ==
    LET p == procs[r] IN
    /\ p.pc = "link_person"
    /\ IF ~people[p.pid].exists
       THEN /\ resp' = Response(p.op, 404, p.pid, p.tok.user_id)
            /\ procs' = [procs EXCEPT ![r] = Idle]
       ELSE IF people[p.pid].linked_user_id # ""
       THEN /\ resp' = Response(p.op, 400, p.pid, p.tok.user_id)
            /\ procs' = [procs EXCEPT ![r] = Idle]
       ELSE /\ resp' = NoResp
            /\ procs' = [procs EXCEPT ![r].pc = "link_update"]
    /\ UNCHANGED <<people, users, suggestions, claims, permreqs, nextPerson,
                   started, execCount, deletedOK, history, sseVars>>

\* LinkUserToPerson: the Update that writes the person's linked_user_id
LinkUserToPerson_Update(r) ==
    LET p == procs[r] IN
    /\ p.pc = "link_update"
    /\ procs' = [procs EXCEPT ![r] = Idle]
    /\ IF ~people[p.pid].exists
       THEN /\ resp' = Response(p.op, 500, p.pid, p.tok.user_id)
            /\ people' = people
       ELSE /\ resp' = Response(p.op, 200, p.pid, p.tok.user_id)
            /\ people' = [people EXCEPT ![p.pid].linked_user_id = p.target]
    /\ UNCHANGED <<users, suggestions, claims, permreqs, nextPerson, started,
                   execCount, deletedOK, history, sseVars>>

----------------------------------------------------------------------------
(* Permission requests: RequestPermission, ApprovePermissionRequest,         *)
(* RejectPermissionRequest                                                   *)

\* the pending permission requests of user u (query on permission_requests)
PendingRequestsOf(u) ==
    {q \in RequestIds : /\ permreqs[q].exists
                        /\ permreqs[q].user_id = u
                        /\ permreqs[q].status = "pending"}

FreeRequestIds == {q \in RequestIds : ~permreqs[q].exists}

\* the roles a permission request may ask for
RequestableRoles == {RoleContributor, RoleCoAdmin, RoleAdmin}

\* a request as RequestPermission writes it
PendingRequest(user, role) ==
    [exists |-> TRUE, user_id |-> user, requested_role |-> role, status |-> "pending"]

\* RequestPermission: binding, role validation, and the pending-request query
RequestPermission(r, u, role) ==
    /\ FreeSlot(r)
    /\ started < MaxOps
    /\ users[u].exists
    /\ started' = started + 1
    /\ IF role \notin RequestableRoles
       THEN /\ resp' = Response("RequestPermission", 400, None, u)
            /\ procs' = procs
       ELSE IF PendingRequestsOf(u) # {}
       THEN /\ resp' = Response("RequestPermission", 409, None, u)
            /\ procs' = procs
       ELSE /\ resp' = NoResp
            /\ procs' = [procs EXCEPT ![r] =
                   [pc |-> "perm_add", op |-> "RequestPermission", tok |-> TokenOf(u),
                    role |-> role]]
    /\ UNCHANGED <<people, users, suggestions, claims, permreqs, nextPerson,
                   execCount, deletedOK, history, sseVars>>

\* RequestPermission: the Add of the new pending request
RequestPermission_Add(r) ==
    LET p == procs[r] IN
    /\ p.pc = "perm_add"
    /\ FreeRequestIds # {}
    /\ LET id == CHOOSE q \in FreeRequestIds : \A o \in FreeRequestIds : q <= o IN
       /\ permreqs' = [permreqs EXCEPT ![id] = PendingRequest(p.tok.user_id, p.role)]
       /\ resp' = Response(p.op, 201, id, p.tok.user_id)
    /\ procs' = [procs EXCEPT ![r] = Idle]
    /\ UNCHANGED <<people, users, suggestions, claims, nextPerson, started,
                   execCount, deletedOK, history, sseVars>>

\* Approve/RejectPermissionRequest up to the pending check: role, Get, status test
PermissionReview_Get(r, op, u, id, nextpc) ==
    /\ FreeSlot(r)
    /\ started < MaxOps
    /\ users[u].exists
    /\ started' = started + 1
    /\ LET tok == TokenOf(u) IN
       IF tok.role # RoleAdmin
       THEN /\ resp' = Response(op, 403, id, u)
            /\ procs' = procs
       ELSE IF ~permreqs[id].exists
       THEN /\ resp' = Response(op, 404, id, u)
            /\ procs' = procs
       ELSE IF permreqs[id].status # "pending"
       THEN /\ resp' = Response(op, 400, id, u)
            /\ procs' = procs
       ELSE /\ resp' = NoResp
            /\ procs' = [procs EXCEPT ![r] =
                   [pc |-> nextpc, op |-> op, tok |-> tok, id |-> id,
                    req |-> permreqs[id]]]
    /\ UNCHANGED <<people, users, suggestions, claims, permreqs, nextPerson,
                   execCount, deletedOK, history, sseVars>>

ApprovePermissionRequest_Get(r, u, id) ==
    PermissionReview_Get(r, "ApprovePermissionRequest", u, id, "perm_user")

\* ApprovePermissionRequest: the Update of the user's role
ApprovePermissionRequest_UpdateUser(r) ==
    LET p == procs[r] IN
    /\ p.pc = "perm_user"
    /\ IF ~users[p.req.user_id].exists
       THEN /\ resp' = Response(p.op, 500, p.id, p.tok.user_id)
            /\ procs' = [procs EXCEPT ![r] = Idle]
            /\ users' = users
       ELSE /\ resp' = NoResp
            /\ procs' = [procs EXCEPT ![r].pc = "perm_status"]
            /\ users' = [users EXCEPT ![p.req.user_id].role = p.req.requested_role]
    /\ UNCHANGED <<people, suggestions, claims, permreqs, nextPerson, started,
                   execCount, deletedOK, history, sseVars>>

\* ApprovePermissionRequest: the Update of the request's status
ApprovePermissionRequest_UpdateRequest(r) ==
    LET p == procs[r] IN
    /\ p.pc = "perm_status"
    /\ permreqs' = [permreqs EXCEPT ![p.id].status = "approved"]
    /\ resp' = Response(p.op, 200, p.id, p.tok.user_id)
    /\ procs' = [procs EXCEPT ![r] = Idle]
    /\ UNCHANGED <<people, users, suggestions, claims, nextPerson, started,
                   execCount, deletedOK, history, sseVars>>

RejectPermissionRequest_Get(r, u, id) ==
    PermissionReview_Get(r, "RejectPermissionRequest", u, id, "perm_reject")

\* RejectPermissionRequest: the Update of the request's status
RejectPermissionRequest_Update(r) ==
    LET p == procs[r] IN
    /\ p.pc = "perm_reject"
    /\ permreqs' = [permreqs EXCEPT ![p.id].status = "rejected"]
    /\ resp' = Response(p.op, 200, p.id, p.tok.user_id)
    /\ procs' = [procs EXCEPT ![r] = Idle]
    /\ UNCHANGED <<people, users, suggestions, claims, nextPerson, started,
                   execCount, deletedOK, history, sseVars>>

----------------------------------------------------------------------------
(* Likes: LikePerson and UnlikePerson.  Each runs one transaction on the     *)
(* person document: the body reads the document through the transaction,     *)
(* and the commit is refused when the document was written in between, in    *)
(* which case the body is run again.  The store gives up after a fixed       *)
(* number of attempts; the requests of a bounded run never reach it.         *)

\* a transaction that commits over a document written since it was read
TxnNeverConflicts(read, current) == FALSE

\* the commit-time check of RunTransaction on a document read with tx.Get
TxnConflict(read, current) == read # current

LikeResponse(op, code, pid, actor, attempts) ==
    [op |-> op, code |-> code, ref |-> pid, actor |-> actor, attempts |-> attempts]

\* one run of a like/unlike transaction body against the document it reads:
\* the handler's answer when the body returns an error, or the wait for commit
LikeBody(r, op, u, pid, attempts) ==
    LET doc == people[pid]
        liked == u \in Range(doc.liked_by) IN
    IF ~doc.exists
    THEN /\ resp' = LikeResponse(op, 500, pid, u, attempts)
         /\ procs' = [procs EXCEPT ![r] = Idle]
    ELSE IF (op = "LikePerson" /\ liked) \/ (op = "UnlikePerson" /\ ~liked)
    THEN /\ resp' = LikeResponse(op, 409, pid, u, attempts)
         /\ procs' = [procs EXCEPT ![r] = Idle]
    ELSE /\ resp' = NoResp
         /\ procs' = [procs EXCEPT ![r] =
                [pc |-> "like_commit", op |-> op, user_id |-> u, pid |-> pid,
                 read |-> doc, attempts |-> attempts]]

\* LikePerson: arrival and the first run of the transaction body (the
\* middleware checks the token only, so a deleted user's token still works)
LikePerson(r, u, pid) ==
    /\ FreeSlot(r)
    /\ started < MaxOps
    /\ started' = started + 1
    /\ history' = [history EXCEPT !.likes = @ \cup {<<pid, u>>}]
    /\ LikeBody(r, "LikePerson", u, pid, 1)
    /\ UNCHANGED <<people, users, suggestions, claims, permreqs, nextPerson,
                   execCount, deletedOK, sseVars>>

\* UnlikePerson: arrival and the first run of the transaction body
UnlikePerson(r, u, pid) ==
    /\ FreeSlot(r)
    /\ started < MaxOps
    /\ started' = started + 1
    /\ LikeBody(r, "UnlikePerson", u, pid, 1)
    /\ UNCHANGED <<people, users, suggestions, claims, permreqs, nextPerson,
                   execCount, deletedOK, history, sseVars>>

\* the document a like writes: ArrayUnion on liked_by, the count it read plus one
Liked(current, read, u) ==
    [current EXCEPT !.liked_by = ArrayUnion(@, u), !.likes_count = read.likes_count + 1]

\* the document an unlike writes: ArrayRemove, the count it read minus one, not below 0
Unliked(current, read, u) ==
    [current EXCEPT !.liked_by = ArrayRemove(@, u),
                    !.likes_count = IF read.likes_count - 1 < 0 THEN 0
                                    ELSE read.likes_count - 1]

\* the commit of a like or unlike transaction, or its next attempt
Like_Commit(r) ==
    LET p == procs[r] IN
    /\ p.pc = "like_commit"
    /\ IF TxnConflict(p.read, people[p.pid])
       THEN /\ LikeBody(r, p.op, p.user_id, p.pid, p.attempts + 1)
            /\ people' = people
       ELSE /\ people' = [people EXCEPT ![p.pid] =
                   IF p.op = "LikePerson" THEN Liked(@, p.read, p.user_id)
                   ELSE Unliked(@, p.read, p.user_id)]
            /\ resp' = LikeResponse(p.op, 200, p.pid, p.user_id, p.attempts)
            /\ procs' = [procs EXCEPT ![r] = Idle]
    /\ UNCHANGED <<users, suggestions, claims, permreqs, nextPerson, started,
                   execCount, deletedOK, history, sseVars>>

----------------------------------------------------------------------------
(* GetAllPeople and the background scrub (ValidatePersonReferences)          *)

\* GetAllPeople's second pass: a person with a reference that dangles in the
\* two collections as the handler read them
NeedsCleanup(doc, allPeople, allUsers) ==
    \/ \E c \in Range(doc.children) : ~allPeople[c].exists
    \/ \E u \in Range(doc.liked_by) : ~allUsers[u].exists
    \/ doc.linked_user_id # "" /\ ~allUsers[doc.linked_user_id].exists

\* GetAllPeople: arrival and the read of the people collection
GetAllPeople(r, u) ==
    /\ FreeSlot(r)
    /\ started < MaxOps
    /\ started' = started + 1
    /\ resp' = NoResp
    /\ procs' = [procs EXCEPT ![r] =
           [pc |-> "readall_users", op |-> "GetAllPeople", user_id |-> u,
            people |-> people]]
    /\ UNCHANGED <<people, users, suggestions, claims, permreqs, nextPerson,
                   execCount, deletedOK, history, sseVars>>

\* GetAllPeople: the read of the users collection, the response, and one
\* background scrub started for every person that needs cleanup
GetAllPeople_Users(r) ==
    LET p == procs[r]
        cleanup == {q \in PersonIds :
                       p.people[q].exists /\ NeedsCleanup(p.people[q], p.people, users)} IN
    /\ p.pc = "readall_users"
    /\ resp' = Response(p.op, 200, None, p.user_id)
    /\ IF cleanup = {}
       THEN /\ procs' = [procs EXCEPT ![r] = Idle]
            /\ history' = [history EXCEPT !.readAllDone = @ + 1]
       ELSE /\ procs' = [procs EXCEPT ![r] =
                   [pc |-> "scrub", op |-> p.op, user_id |-> p.user_id,
                    scrubs |-> [q \in cleanup |-> [pc |-> "get"]]]]
            /\ history' = history
    /\ UNCHANGED <<people, users, suggestions, claims, permreqs, nextPerson,
                   started, execCount, deletedOK, sseVars>>

\* the scrubs of request r after the scrub of person q moved to state s;
\* the slot is released when the last one has returned
ScrubMoves(r, q, s) ==
    LET scrubs == [procs[r].scrubs EXCEPT ![q] = s] IN
    IF \A o \in DOMAIN scrubs : scrubs[o].pc = "done"
    THEN procs' = [procs EXCEPT ![r] = Idle]
    ELSE procs' = [procs EXCEPT ![r].scrubs = scrubs]

\* the last scrub of request r returns in this step
LastScrub(r, q) == \A o \in DOMAIN procs[r].scrubs \ {q} : procs[r].scrubs[o].pc = "done"

Scrubbing(r, q, pc) ==
    /\ procs[r].pc = "scrub"
    /\ q \in DOMAIN procs[r].scrubs
    /\ procs[r].scrubs[q].pc = pc

\* ValidatePersonReferences: the Get of the person
ValidatePersonReferences_Get(r, q) ==
    /\ Scrubbing(r, q, "get")
    /\ IF ~people[q].exists
       THEN /\ ScrubMoves(r, q, [pc |-> "done"])
            /\ history' = [history EXCEPT !.readAllDone =
                              IF LastScrub(r, q) THEN @ + 1 ELSE @]
       ELSE /\ ScrubMoves(r, q, [pc |-> "check", doc |-> people[q]])
            /\ history' = history
    /\ resp' = NoResp
    /\ UNCHANGED <<people, users, suggestions, claims, permreqs, nextPerson,
                   started, execCount, deletedOK, sseVars>>

\* ValidatePersonReferences: the lookups of the linked user, of every child and
\* of every liker (taken together), and the update list they produce
ValidatePersonReferences_Check(r, q) ==
    /\ Scrubbing(r, q, "check")
    /\ LET doc == procs[r].scrubs[q].doc
           linkDangling == doc.linked_user_id # "" /\ ~users[doc.linked_user_id].exists
           validChildren == SelectSeq(doc.children, LAMBDA c : people[c].exists)
           childRemoved == Len(validChildren) # Len(doc.children)
           validLikedBy == SelectSeq(doc.liked_by, LAMBDA u : users[u].exists)
           likerRemoved == Len(validLikedBy) # Len(doc.liked_by) IN
       IF linkDangling \/ childRemoved \/ likerRemoved
       THEN /\ ScrubMoves(r, q,
                   [pc |-> "update", clearLink |-> linkDangling,
                    writeChildren |-> linkDangling \/ childRemoved,
                    children |-> validChildren,
                    writeLikes |-> likerRemoved, liked_by |-> validLikedBy])
            /\ history' = history
       ELSE /\ ScrubMoves(r, q, [pc |-> "done"])
            /\ history' = [history EXCEPT !.readAllDone =
                              IF LastScrub(r, q) THEN @ + 1 ELSE @]
    /\ resp' = NoResp
    /\ UNCHANGED <<people, users, suggestions, claims, permreqs, nextPerson,
                   started, execCount, deletedOK, sseVars>>

\* a scrub's rewrite of liked_by that leaves likes_count as it was
ScrubbedLikedByOnly(doc, valid) == [doc EXCEPT !.liked_by = valid]

\* the scrub's rewrite of liked_by and likes_count
ScrubbedLikes(doc, valid) == [doc EXCEPT !.liked_by = valid, !.likes_count = Len(valid)]

\* the document after the scrub's update list is applied to it
Scrubbed(doc, upd) ==
    LET d1 == IF upd.clearLink THEN [doc EXCEPT !.linked_user_id = ""] ELSE doc
        d2 == IF upd.writeChildren THEN [d1 EXCEPT !.children = upd.children] ELSE d1 IN
    IF upd.writeLikes THEN ScrubbedLikes(d2, upd.liked_by) ELSE d2

\* ValidatePersonReferences: the Update of the person
ValidatePersonReferences_Update(r, q) ==
    /\ Scrubbing(r, q, "update")
    /\ LET upd == procs[r].scrubs[q] IN
       IF ~people[q].exists
       THEN /\ people' = people
            /\ history' = [history EXCEPT !.readAllDone =
                              IF LastScrub(r, q) THEN @ + 1 ELSE @]
       ELSE /\ people' = [people EXCEPT ![q] = Scrubbed(@, upd)]
            /\ history' = [history EXCEPT
                   !.readAllDone = IF LastScrub(r, q) THEN @ + 1 ELSE @,
                   !.scrubbed = IF upd.writeLikes THEN @ \cup {q} ELSE @]
    /\ ScrubMoves(r, q, [pc |-> "done"])
    /\ resp' = NoResp
    /\ UNCHANGED <<users, suggestions, claims, permreqs, nextPerson, started,
                   execCount, deletedOK, sseVars>>

\* the delete_users tool: one iteration of its loop deletes one user document.
\* It is the only code that deletes a user; it does not call OnUserDeleted,
\* which has no caller, so no user-deletion cascade runs.
delete_users(u) ==
    /\ users[u].exists
    /\ users' = [users EXCEPT ![u] = NoUser]
    /\ resp' = NoResp
    /\ UNCHANGED <<people, suggestions, claims, permreqs, procs, nextPerson,
                   started, execCount, deletedOK, history, sseVars>>

----------------------------------------------------------------------------
(* UpdatePerson *)

\* the optional fields of an UpdatePersonRequest: a sequence that is empty
\* when the field is absent (nil) and holds the value otherwise
UpdateRequests ==
    {[name |-> n, children |-> c] : n \in {<<>>, <<"c">>}, c \in {<<>>, << <<>> >>}}

\* UpdatePerson up to the ownership check: gate, Get, authorization
UpdatePerson_Get(r, u, pid, req) ==
    /\ FreeSlot(r)
    /\ started < MaxOps
    /\ users[u].exists
    /\ started' = started + 1
    /\ LET tok == TokenOf(u) IN
       IF ~CanEditDirectly(tok.role)
       THEN /\ resp' = Response("UpdatePerson", 403, pid, u)
            /\ procs' = procs
       ELSE IF ~people[pid].exists
       THEN /\ resp' = Response("UpdatePerson", 404, pid, u)
            /\ procs' = procs
       ELSE IF ~MayModify(people[pid], tok)
       THEN /\ resp' = Response("UpdatePerson", 403, pid, u)
            /\ procs' = procs
       ELSE /\ resp' = NoResp
            /\ procs' = [procs EXCEPT ![r] =
                   [pc |-> "update_person", op |-> "UpdatePerson", tok |-> tok,
                    pid |-> pid, req |-> req]]
    /\ UNCHANGED <<people, users, suggestions, claims, permreqs, nextPerson,
                   execCount, deletedOK, history, sseVars>>

\* the Update of the fields the request carries; it fails on a missing document
UpdatePerson_Update(r) ==
    LET p == procs[r] IN
    /\ p.pc = "update_person"
    /\ IF ~people[p.pid].exists
       THEN /\ people' = people
            /\ resp' = Response(p.op, 500, p.pid, p.tok.user_id)
       ELSE /\ people' = [people EXCEPT
                   ![p.pid].name = IF Len(p.req.name) = 0 THEN @ ELSE p.req.name[1],
                   ![p.pid].children =
                       IF Len(p.req.children) = 0 THEN @ ELSE p.req.children[1]]
            /\ resp' = Response(p.op, 200, p.pid, p.tok.user_id)
    /\ procs' = [procs EXCEPT ![r] = Idle]
    /\ UNCHANGED <<users, suggestions, claims, permreqs, nextPerson, started,
                   execCount, deletedOK, history, sseVars>>

----------------------------------------------------------------------------
(* CreatePerson with children: the new person becomes the parent of         *)
(* existing persons                                                         *)

\* gate, binding and the choice of the new id
CreatePersonAsParent_Start(r, u, name, children) ==
    /\ FreeSlot(r)
    /\ started < MaxOps
    /\ users[u].exists
    /\ nextPerson <= MaxPeople
    /\ Len(children) > 0
    /\ started' = started + 1
    /\ LET tok == TokenOf(u) IN
       IF ~CanEditDirectly(tok.role)
       THEN /\ resp' = Created(403, None, u, None)
            /\ UNCHANGED <<procs, nextPerson, sseVars>>
       ELSE IF name = ""
       THEN /\ resp' = Created(400, None, u, None)
            /\ UNCHANGED <<procs, nextPerson, sseVars>>
       ELSE /\ resp' = NoResp
            /\ nextPerson' = nextPerson + 1
            /\ procs' = [procs EXCEPT ![r] =
                   [pc |-> "asparent_query", op |-> "CreatePerson", tok |-> tok,
                    id |-> nextPerson, name |-> name, children |-> children,
                    todo |-> children, plan |-> {}]]
    /\ UNCHANGED <<people, users, suggestions, claims, permreqs, execCount,
                   deletedOK, history, sseVars>>

\* the transaction body's query for the current parents of the next child (a
\* plain query, not a transactional read); an ArrayRemove is buffered for each
CreatePersonAsParent_Query(r) ==
    LET p == procs[r] IN
    /\ p.pc = "asparent_query"
    /\ Len(p.todo) > 0
    /\ procs' = [procs EXCEPT ![r] =
           [p EXCEPT !.todo = Tail(@),
                     !.plan = @ \cup {<<q, Head(p.todo)>> : q \in ParentsOf(Head(p.todo))}]]
    /\ resp' = NoResp
    /\ UNCHANGED <<people, users, suggestions, claims, permreqs, nextPerson,
                   started, execCount, deletedOK, history, sseVars>>

\* the commit: the buffered ArrayRemoves and the Set of the new person; an
\* update of a parent that no longer exists fails the transaction
CreatePersonAsParent_Commit(r) ==
    LET p == procs[r] IN
    /\ p.pc = "asparent_query"
    /\ Len(p.todo) = 0
    /\ procs' = [procs EXCEPT ![r] = Idle]
    /\ IF \E e \in p.plan : ~people[e[1]].exists
       THEN /\ people' = people
            /\ resp' = Created(500, None, p.tok.user_id, None)
       ELSE /\ people' = [q \in PersonIds |->
                   IF q = p.id
                   THEN [NewPerson(p.name, p.tok.user_id) EXCEPT !.children = p.children]
                   ELSE [people[q] EXCEPT !.children =
                            SelectSeq(@, LAMBDA c : <<q, c>> \notin p.plan)]]
            /\ resp' = Created(201, p.id, p.tok.user_id, None)
    /\ UNCHANGED <<users, suggestions, claims, permreqs, nextPerson, started,
                   execCount, deletedOK, history, sseVars>>

----------------------------------------------------------------------------
(* PopulateTreeFromText: the bulk import of an indented text.  A text is a   *)
(* sequence of characters; the ones given here are the space, the tab, the   *)
(* newline and the letter a, so none of the gender, location and birth       *)
(* markers occurs and a name is its line with the white space normalised.    *)

\* the request text made of the given lines: they are joined by newlines
RECURSIVE JoinLines(_)
JoinLines(lines) ==
    IF Len(lines) = 0 THEN <<>>
    ELSE IF Len(lines) = 1 THEN lines[1]
    ELSE lines[1] \o <<"\n">> \o JoinLines(Tail(lines))

\* strings.Split(text, "\n")
RECURSIVE SplitLines(_)
SplitLines(text) ==
    IF \A i \in 1..Len(text) : text[i] # "\n"
    THEN <<text>>
    ELSE LET i == CHOOSE j \in 1..Len(text) :
                      text[j] = "\n" /\ \A k \in 1..(j - 1) : text[k] # "\n"
         IN <<SubSeq(text, 1, i - 1)>> \o SplitLines(SubSeq(text, i + 1, Len(text)))

\* the count of leading white space, a tab counting as four spaces
RECURSIVE LeadingSpaces(_)
LeadingSpaces(line) ==
    IF Len(line) = 0 THEN 0
    ELSE IF Head(line) = "\t" THEN 4 + LeadingSpaces(Tail(line))
    ELSE IF Head(line) = " " THEN 1 + LeadingSpaces(Tail(line))
    ELSE 0

\* strings.Join(strings.Fields(strings.TrimSpace(line)), " "), left to
\* right: acc is the name so far, gap tells that white space was skipped
RECURSIVE JoinFields(_, _, _)
JoinFields(line, acc, gap) ==
    IF Len(line) = 0 THEN acc
    ELSE IF Head(line) \in {" ", "\t"}
    THEN JoinFields(Tail(line), acc, acc # "")
    ELSE JoinFields(Tail(line),
                    IF gap THEN acc \o " " \o Head(line) ELSE acc \o Head(line),
                    FALSE)

\* the parsing loop: blank lines are skipped, the first indented line sets
\* the indentation unit, the level is the indentation divided by the unit
RECURSIVE ParseLines(_, _)
ParseLines(lines, indentUnit) ==
    IF Len(lines) = 0 THEN <<>>
    ELSE LET line == Head(lines)
             name == JoinFields(line, "", FALSE)
             spaces == LeadingSpaces(line)
             unit == IF spaces > 0 /\ indentUnit = 0 THEN spaces ELSE indentUnit
             level == IF unit > 0 /\ spaces > 0 THEN spaces \div unit ELSE 0
         IN IF name = ""
            THEN ParseLines(Tail(lines), indentUnit)
            ELSE <<[name |-> name, level |-> level]>> \o ParseLines(Tail(lines), unit)

\* a stack that is never popped
PopStackNever(stack, nodes, level) == stack

\* pop from the stack until its top has a lower level
RECURSIVE PopStack(_, _, _)
PopStack(stack, nodes, level) ==
    IF Len(stack) > 0 /\ nodes[stack[Len(stack)]].level >= level
    THEN PopStack(SubSeq(stack, 1, Len(stack) - 1), nodes, level)
    ELSE stack

\* the stack loop from node i on: the parent of each node (0 for none)
RECURSIVE BuildParents(_, _, _)
BuildParents(nodes, i, stack) ==
    IF i > Len(nodes) THEN <<>>
    ELSE LET st == PopStack(stack, nodes, nodes[i].level)
         IN <<IF Len(st) > 0 THEN st[Len(st)] ELSE 0>>
                \o BuildParents(nodes, i + 1, Append(st, i))

\* PopulateTreeFromText: binding, parsing, the stack loop and the batch that
\* sets all the persons at once
PopulateTreeFromText(r, u, text) ==
    /\ FreeSlot(r)
    /\ started < MaxOps
    /\ users[u].exists
    /\ \E nodes \in {ParseLines(SplitLines(text), 0)} :
       \E parents \in {BuildParents(nodes, 1, <<>>)} :
       LET n == Len(nodes)
           base == nextPerson - 1 IN
       /\ base + n <= MaxPeople
       /\ started' = started + 1
       /\ procs' = procs
       /\ IF n = 0
          THEN /\ resp' = Response("PopulateTreeFromText", 400, None, u)
               /\ UNCHANGED <<people, nextPerson, history, sseVars>>
          ELSE /\ people' = [q \in PersonIds |->
                      IF q \in (base + 1)..(base + n)
                      THEN [NewPerson(nodes[q - base].name, u) EXCEPT !.children =
                               [k \in 1..Cardinality({j \in 1..n : parents[j] = q - base}) |->
                                   base + SortedSeq({j \in 1..n : parents[j] = q - base})[k]]]
                      ELSE people[q]]
               /\ nextPerson' = nextPerson + n
               /\ history' = [history EXCEPT !.imported =
                      @ \cup {<<base + i, nodes[i].level, started + 1>> : i \in 1..n}]
               /\ resp' = Response("PopulateTreeFromText", 201, None, u)
       /\ UNCHANGED <<users, suggestions, claims, permreqs, execCount, deletedOK, sseVars>>

----------------------------------------------------------------------------
(* Users: Register, UpdateUserRole, RevokeUserAccess *)

\* Register up to the existence check: binding, the configured tree name
\* ("tree" here) and the Limit(1) query for a user with the email
Register_Query(r, email, treeName) ==
    /\ FreeSlot(r)
    /\ started < MaxOps
    /\ started' = started + 1
    /\ IF email = "" \/ treeName # "tree"
       THEN /\ resp' = Response("Register", 400, None, email)
            /\ procs' = procs
       ELSE IF \E u \in UserIds : users[u].exists /\ users[u].email = email
       THEN /\ resp' = Response("Register", 409, None, email)
            /\ procs' = procs
       ELSE /\ resp' = NoResp
            /\ procs' = [procs EXCEPT ![r] =
                   [pc |-> "register_add", op |-> "Register", email |-> email]]
    /\ UNCHANGED <<people, users, suggestions, claims, permreqs, nextPerson,
                   execCount, deletedOK, history, sseVars>>

\* Register: the Add of the user document under a fresh id.  The persons of
\* this model carry no birth year, so the family check finds no match and
\* the user is created unverified.
Register_Add(r) ==
    LET p == procs[r]
        free == {u \in UserIds : ~users[u].exists} IN
    /\ p.pc = "register_add"
    /\ free # {}
    /\ LET id == CHOOSE u \in free : TRUE IN
       /\ users' = [users EXCEPT ![id] =
              [exists |-> TRUE, email |-> p.email, role |-> RoleViewer,
               is_verified |-> FALSE, person_id |-> None]]
       /\ resp' = Response(p.op, 201, id, p.email)
    /\ procs' = [procs EXCEPT ![r] = Idle]
    /\ UNCHANGED <<people, suggestions, claims, permreqs, nextPerson, started,
                   execCount, deletedOK, history, sseVars>>

\* a role change without the guard against changing one's own role
RoleChangeOfAnybody_Get(r, op, u, target, role) ==
    /\ FreeSlot(r)
    /\ started < MaxOps
    /\ users[u].exists
    /\ started' = started + 1
    /\ LET tok == TokenOf(u) IN
       IF ~CanManageUsers(tok.role)
       THEN /\ resp' = Response(op, 403, target, u)
            /\ procs' = procs
       ELSE IF ~users[target].exists
       THEN /\ resp' = Response(op, 404, target, u)
            /\ procs' = procs
       ELSE /\ resp' = NoResp
            /\ procs' = [procs EXCEPT ![r] =
                   [pc |-> "role_update", op |-> op, tok |-> tok,
                    target |-> target, role |-> role]]
    /\ UNCHANGED <<people, users, suggestions, claims, permreqs, nextPerson,
                   execCount, deletedOK, history, sseVars>>

\* UpdateUserRole and RevokeUserAccess up to the Update: the admin gate, the
\* guard against changing one's own role, the role validation (role is
\* already valid for a revoke) and the Get of the target user
RoleChange_Get(r, op, u, target, role) ==
    /\ FreeSlot(r)
    /\ started < MaxOps
    /\ users[u].exists
    /\ started' = started + 1
    /\ LET tok == TokenOf(u) IN
       IF ~CanManageUsers(tok.role)
       THEN /\ resp' = Response(op, 403, target, u)
            /\ procs' = procs
       ELSE IF tok.user_id = target
       THEN /\ resp' = Response(op, 400, target, u)
            /\ procs' = procs
       ELSE IF role \notin {RoleViewer, RoleContributor, RoleCoAdmin, RoleAdmin}
       THEN /\ resp' = Response(op, 400, target, u)
            /\ procs' = procs
       ELSE IF ~users[target].exists
       THEN /\ resp' = Response(op, 404, target, u)
            /\ procs' = procs
       ELSE /\ resp' = NoResp
            /\ procs' = [procs EXCEPT ![r] =
                   [pc |-> "role_update", op |-> op, tok |-> tok,
                    target |-> target, role |-> role]]
    /\ UNCHANGED <<people, users, suggestions, claims, permreqs, nextPerson,
                   execCount, deletedOK, history, sseVars>>

UpdateUserRole_Get(r, u, target, role) ==
    RoleChange_Get(r, "UpdateUserRole", u, target, role)

\* RevokeUserAccess sets the role to viewer
RevokeUserAccess_Get(r, u, target) ==
    RoleChange_Get(r, "RevokeUserAccess", u, target, RoleViewer)

\* the Update of the target's role; it fails on a missing document
RoleChange_Update(r) ==
    LET p == procs[r] IN
    /\ p.pc = "role_update"
    /\ IF ~users[p.target].exists
       THEN /\ users' = users
            /\ resp' = Response(p.op, 500, p.target, p.tok.user_id)
       ELSE /\ users' = [users EXCEPT ![p.target].role = p.role]
            /\ resp' = Response(p.op, 200, p.target, p.tok.user_id)
    /\ procs' = [procs EXCEPT ![r] = Idle]
    /\ UNCHANGED <<people, suggestions, claims, permreqs, nextPerson, started,
                   execCount, deletedOK, history, sseVars>>

\* Login: the user is looked up and generateToken signs a token that
\* carries the user's id and the role the user has now; history.tokens holds
\* the tokens issued that have not expired
Login(u) ==
    /\ users[u].exists
    /\ history' = [history EXCEPT !.tokens = @ \cup {TokenOf(u)}]
    /\ resp' = Response("Login", 200, None, u)
    /\ UNCHANGED <<people, users, suggestions, claims, permreqs, procs, nextPerson,
                   started, execCount, deletedOK, sseVars>>

----------------------------------------------------------------------------
(* The grouped view of the suggestions (GetGroupedSuggestions) *)

\* getSuggestionGroupKey: the type, the target and the proposed values joined
\* with colons (role and birth are not modelled and print as empty); a delete
\* key carries the type and the target only
getSuggestionGroupKey(s) ==
    IF s.type = "delete"
    THEN "delete:" \o ToString(s.target_person_id)
    ELSE s.type \o ":" \o ToString(s.target_person_id) \o ":" \o s.name \o "::"

\* groupSuggestions before its sort: one group for every key, taking type
\* and target from its suggestions, with no conflict recorded yet
groupSuggestions(store, ids) ==
    { [group_id |-> k,
       type |-> store[CHOOSE s \in ids : getSuggestionGroupKey(store[s]) = k].type,
       target_person_id |->
           store[CHOOSE s \in ids : getSuggestionGroupKey(store[s]) = k].target_person_id,
       suggestion_ids |-> {s \in ids : getSuggestionGroupKey(store[s]) = k},
       has_conflicts |-> FALSE,
       conflicts_with |-> <<>>] : k \in {getSuggestionGroupKey(store[s]) : s \in ids} }

\* detectConflicts over the sorted groups: for every target with more than
\* one group, the last delete group and the last edit group of the list name
\* each other, then every edit group names every other edit group
detectConflicts(groups) ==
    LET Affected(t) == {j \in 1..Len(groups) : groups[j].target_person_id = t}
        OfType(t, ty) == {j \in Affected(t) : groups[j].type = ty}
        Last(S) == CHOOSE j \in S : \A k \in S : k <= j
        Ids(S) == LET f[i \in 0..Len(groups)] ==
                          IF i = 0 THEN <<>>
                          ELSE IF i \in S THEN Append(f[i - 1], groups[i].group_id)
                               ELSE f[i - 1]
                  IN f[Len(groups)]
        DeleteEdit(i) ==
            LET t == groups[i].target_person_id
                dels == OfType(t, "delete")
                edits == OfType(t, "edit") IN
            IF dels # {} /\ edits # {}
            THEN IF i = Last(dels) THEN <<groups[Last(edits)].group_id>>
                 ELSE IF i = Last(edits) THEN <<groups[Last(dels)].group_id>>
                      ELSE <<>>
            ELSE <<>>
        ManyEdits(i) ==
            LET edits == OfType(groups[i].target_person_id, "edit") IN
            IF i \in edits /\ Cardinality(edits) > 1 THEN Ids(edits \ {i}) ELSE <<>>
        Conflicts(i) ==
            IF groups[i].target_person_id = None
                 \/ Cardinality(Affected(groups[i].target_person_id)) <= 1
            THEN <<>>
            ELSE DeleteEdit(i) \o ManyEdits(i)
    IN [i \in 1..Len(groups) |->
           [groups[i] EXCEPT !.has_conflicts = Len(Conflicts(i)) > 0,
                             !.conflicts_with = Conflicts(i)]]

\* GetGroupedSuggestions: the query of the suggestions with the asked status,
\* the grouping, the sort by count (creation times are not modelled: groups
\* of equal count come in any order), the conflict detection and the response
GetGroupedSuggestions(r, u, status) ==
    LET ids == {s \in DOMAIN suggestions :
                   suggestions[s].exists /\ suggestions[s].status = status}
        gs == groupSuggestions(suggestions, ids)
        n == Cardinality(gs) IN
    /\ FreeSlot(r)
    /\ started < MaxOps
    /\ started' = started + 1
    /\ \E groups \in {g \in [1..n -> gs] :
                        /\ \A i, j \in 1..n : i # j => g[i] # g[j]
                        /\ \A i, j \in 1..n :
                             i < j => Cardinality(g[i].suggestion_ids)
                                        >= Cardinality(g[j].suggestion_ids)} :
         resp' = [op |-> "GetGroupedSuggestions", code |-> 200, ref |-> None,
                  actor |-> u, groups |-> detectConflicts(groups),
                  total_count |-> Cardinality(ids), group_count |-> n]
    /\ UNCHANGED <<people, users, suggestions, claims, permreqs, procs, nextPerson,
                   execCount, deletedOK, history, sseVars>>

----------------------------------------------------------------------------
(* The admin event stream (SSEHandler) *)

\* the admin stream requests of a run; every request gets a client id of its own
ClientIds == {"c1", "c2"}
\* the watched collections, in the order sendInitialAdminData sends them
Collections == <<"suggestions", "permission_requests", "identity_claims">>

\* NewSSEHandler: no client, the three watchers waiting for a change
InitSSE ==
    /\ adminClients = {}
    /\ messageChan = [c \in ClientIds |-> [buf |-> <<>>, closed |-> FALSE]]
    /\ streams = [c \in ClientIds |->
                     [pc |-> "none", k |-> 1, cancelled |-> FALSE, written |-> <<>>]]
    /\ watchers = [w \in {Collections[k] : k \in 1..Len(Collections)} |->
                      [msg |-> [event |-> w, kind |-> "change", n |-> 0], todo |-> {}]]
    /\ nextEvent = 1

\* AdminStream up to the registration: the token's role is checked, the
\* channel is made and put into the map under mu.Lock, which waits for the
\* broadcasts that hold mu.RLock
AdminStream_Register(c, u) ==
    /\ streams[c].pc = "none"
    /\ IF TokenOf(u).role \in {"admin", "co-admin"}
       THEN /\ \A w \in DOMAIN watchers : watchers[w].todo = {}
            /\ adminClients' = adminClients \cup {c}
            /\ streams' = [streams EXCEPT ![c].pc = "connected"]
            /\ resp' = NoResp
       ELSE /\ adminClients' = adminClients
            /\ streams' = [streams EXCEPT ![c].pc = "returned"]
            /\ resp' = Response("AdminStream", 403, None, u)
    /\ UNCHANGED <<people, users, suggestions, claims, permreqs, procs, nextPerson,
                   started, execCount, deletedOK, history, messageChan, watchers,
                   nextEvent>>

\* AdminStream: the connected event is written
AdminStream_Connected(c) ==
    /\ streams[c].pc = "connected"
    /\ streams' = [streams EXCEPT
           ![c].pc = "snapshot",
           ![c].written = Append(@, [event |-> "connected", kind |-> "connected", n |-> 0])]
    /\ UNCHANGED <<people, users, suggestions, claims, permreqs, procs, nextPerson,
                   started, execCount, deletedOK, history, resp, adminClients,
                   messageChan, watchers, nextEvent>>

\* sendInitialAdminData, one collection a step: the pending documents are
\* fetched and written as one event named after the collection
sendInitialAdminData(c) ==
    LET k == streams[c].k IN
    /\ streams[c].pc = "snapshot"
    /\ streams' = [streams EXCEPT
           ![c].pc = IF k = Len(Collections) THEN "loop" ELSE "snapshot",
           ![c].k = IF k = Len(Collections) THEN k ELSE k + 1,
           ![c].written = Append(@, [event |-> Collections[k], kind |-> "items", n |-> 0])]
    /\ UNCHANGED <<people, users, suggestions, claims, permreqs, procs, nextPerson,
                   started, execCount, deletedOK, history, resp, adminClients,
                   messageChan, watchers, nextEvent>>

\* the client goes away: the request context is cancelled
RequestCancelled(c) ==
    /\ streams[c].pc \in {"connected", "snapshot", "loop"}
    /\ ~streams[c].cancelled
    /\ streams' = [streams EXCEPT ![c].cancelled = TRUE]
    /\ UNCHANGED <<people, users, suggestions, claims, permreqs, procs, nextPerson,
                   started, execCount, deletedOK, history, resp, adminClients,
                   messageChan, watchers, nextEvent>>

\* a handler that takes events from its channel before the loop
AdminStream_DeliverEarly(c) ==
    /\ streams[c].pc \in {"snapshot", "loop"}
    /\ Len(messageChan[c].buf) > 0
    /\ streams' = [streams EXCEPT ![c].written = Append(@, Head(messageChan[c].buf))]
    /\ messageChan' = [messageChan EXCEPT ![c].buf = Tail(@)]
    /\ UNCHANGED <<people, users, suggestions, claims, permreqs, procs, nextPerson,
                   started, execCount, deletedOK, history, resp, adminClients,
                   watchers, nextEvent>>

\* the select loop, case msg := <-messageChan: the event is written
AdminStream_Deliver(c) ==
    /\ streams[c].pc = "loop"
    /\ Len(messageChan[c].buf) > 0
    /\ streams' = [streams EXCEPT ![c].written = Append(@, Head(messageChan[c].buf))]
    /\ messageChan' = [messageChan EXCEPT ![c].buf = Tail(@)]
    /\ UNCHANGED <<people, users, suggestions, claims, permreqs, procs, nextPerson,
                   started, execCount, deletedOK, history, resp, adminClients,
                   watchers, nextEvent>>

\* a handler that closes its channel before it has the lock
AdminStream_CloseUnlocked(c) ==
    /\ streams[c].pc = "loop"
    /\ streams[c].cancelled
    /\ streams' = [streams EXCEPT ![c].pc = "closing"]
    /\ messageChan' = [messageChan EXCEPT ![c].closed = TRUE]
    /\ UNCHANGED <<people, users, suggestions, claims, permreqs, procs, nextPerson,
                   started, execCount, deletedOK, history, resp, adminClients,
                   watchers, nextEvent>>

\* the select loop, case <-ctx.Done(): the handler asks for mu.Lock; from
\* then on no broadcast takes mu.RLock before the lock was granted
AdminStream_Lock(c) ==
    /\ streams[c].pc = "loop"
    /\ streams[c].cancelled
    /\ streams' = [streams EXCEPT ![c].pc = "closing"]
    /\ UNCHANGED <<people, users, suggestions, claims, permreqs, procs, nextPerson,
                   started, execCount, deletedOK, history, resp, adminClients,
                   messageChan, watchers, nextEvent>>

\* a handler that returns without taking its client out of the map
AdminStream_DoneKeepsClient(c) ==
    /\ streams[c].pc = "closing"
    /\ \A w \in DOMAIN watchers : watchers[w].todo = {}
    /\ adminClients' = adminClients
    /\ messageChan' = [messageChan EXCEPT ![c].closed = TRUE]
    /\ streams' = [streams EXCEPT ![c].pc = "returned"]
    /\ UNCHANGED <<people, users, suggestions, claims, permreqs, procs, nextPerson,
                   started, execCount, deletedOK, history, resp, watchers, nextEvent>>

\* the select loop, case <-ctx.Done() under mu.Lock: the client leaves the
\* map, its channel is closed, the handler returns
AdminStream_Done(c) ==
    /\ streams[c].pc = "closing"
    /\ \A w \in DOMAIN watchers : watchers[w].todo = {}
    /\ adminClients' = adminClients \ {c}
    /\ messageChan' = [messageChan EXCEPT ![c].closed = TRUE]
    /\ streams' = [streams EXCEPT ![c].pc = "returned"]
    /\ UNCHANGED <<people, users, suggestions, claims, permreqs, procs, nextPerson,
                   started, execCount, deletedOK, history, resp, watchers, nextEvent>>

\* watchCollection: a change of collection w arrives and broadcastToAdmins
\* takes mu.RLock (not while a handler waits for mu.Lock) to range over the map
watchCollection(w) ==
    /\ watchers[w].todo = {}
    /\ \A c \in ClientIds : streams[c].pc # "closing"
    /\ nextEvent <= MaxEvents
    /\ nextEvent' = nextEvent + 1
    /\ watchers' = [watchers EXCEPT
           ![w] = [msg |-> [event |-> w, kind |-> "change", n |-> nextEvent],
                   todo |-> adminClients]]
    /\ UNCHANGED <<people, users, suggestions, claims, permreqs, procs, nextPerson,
                   started, execCount, deletedOK, history, resp, adminClients,
                   messageChan, streams>>

\* a broadcast that gives up at the first full channel
broadcastToAdmins_StopWhenFull(w, c) ==
    /\ c \in watchers[w].todo
    /\ IF Len(messageChan[c].buf) < MaxBuffered
       THEN /\ messageChan' = [messageChan EXCEPT ![c].buf = Append(@, watchers[w].msg)]
            /\ watchers' = [watchers EXCEPT ![w].todo = @ \ {c}]
            /\ history' = history
       ELSE /\ messageChan' = messageChan
            /\ watchers' = [watchers EXCEPT ![w].todo = {}]
            /\ history' = [history EXCEPT !.dropped = @ \cup {<<c, watchers[w].msg.n>>}]
    /\ UNCHANGED <<people, users, suggestions, claims, permreqs, procs, nextPerson,
                   started, execCount, deletedOK, resp, adminClients, streams,
                   nextEvent>>

\* broadcastToAdmins, one client of the range a step: the send that does
\* not wait, the event being skipped for a client whose channel is full;
\* mu.RLock is given back after the last client
broadcastToAdmins_Send(w, c) ==
    /\ c \in watchers[w].todo
    /\ IF Len(messageChan[c].buf) < MaxBuffered
       THEN /\ messageChan' = [messageChan EXCEPT ![c].buf = Append(@, watchers[w].msg)]
            /\ history' = history
       ELSE /\ messageChan' = messageChan
            /\ history' = [history EXCEPT !.dropped = @ \cup {<<c, watchers[w].msg.n>>}]
    /\ watchers' = [watchers EXCEPT ![w].todo = @ \ {c}]
    /\ UNCHANGED <<people, users, suggestions, claims, permreqs, procs, nextPerson,
                   started, execCount, deletedOK, resp, adminClients, streams,
                   nextEvent>>

----------------------------------------------------------------------------
(* The stores the specifications start from *)

InitUsers ==
    [u \in UserIds |->
        [exists |-> TRUE,
         email |-> u,
         role |-> CASE u = "admin" -> RoleAdmin
                    [] u = "coadmin" -> RoleCoAdmin
                    [] u = "editor" -> RoleEditor
                    [] u = "contrib" -> RoleContributor
                    [] OTHER -> RoleViewer,
         is_verified |-> FALSE, person_id |-> None]]

\* a root created by the editor with one child
InitPeople ==
    [q \in PersonIds |->
        IF q = 1 THEN [NewPerson("a", "editor") EXCEPT !.children = <<2>>]
        ELSE IF q = 2 THEN NewPerson("a", "editor")
        ELSE NoPerson]

PendingSuggestion(type, target, name, author) ==
    [exists |-> TRUE, type |-> type, target_person_id |-> target, name |-> name,
     status |-> "pending", user_id |-> author, reviewed_by |-> "", review_notes |-> ""]

\* the id lists BatchReviewSuggestions is called with
BatchIdLists == UNION {[1..n -> SuggestionIds] : n \in 0..MaxOps}

----------------------------------------------------------------------------
(* Specification of the suggestion workflow: one pending suggestion and one *)
(* pending identity claim exist; reviews, batch reviews, new suggestions    *)
(* and person deletions interleave.                                         *)

InitSuggestion ==
    /\ people = InitPeople
    /\ users = InitUsers
    /\ \E type \in {"add", "edit", "delete"} :
         suggestions = [s \in SuggestionIds |->
             IF s = 1 THEN PendingSuggestion(type, 2, "b", "contrib")
             ELSE NoSuggestion]
    /\ claims = [c \in ClaimIds |-> IF c = 1 THEN PendingClaim("viewer", 2) ELSE NoClaim]
    /\ permreqs = [q \in RequestIds |-> NoRequest]
    /\ procs = [r \in Procs |-> Idle]
    /\ nextPerson = 3
    /\ started = 0
    /\ execCount = [s \in SuggestionIds |-> 0]
    /\ deletedOK = {}
    /\ history = NoHistory
    /\ resp = NoResp
    /\ InitSSE

\* the request bodies CreateSuggestion is called with
SuggestionRequests ==
    {[type |-> "add", target |-> None, name |-> "b"],
     [type |-> "add", target |-> 2, name |-> "b"],
     [type |-> "add", target |-> None, name |-> ""],
     [type |-> "edit", target |-> 2, name |-> "b"],
     [type |-> "delete", target |-> 2, name |-> ""],
     [type |-> "delete", target |-> None, name |-> ""]}

NextSuggestion ==
    \E r \in Procs :
        \/ \E u \in {"admin", "coadmin"}, sid \in SuggestionIds, approved \in BOOLEAN :
             ReviewSuggestion_Get(r, u, sid, approved, "n")
        \/ \E ids \in BatchIdLists, approved \in BOOLEAN :
             BatchReviewSuggestions_Start(r, "admin", ids, approved, "n")
        \/ BatchReviewSuggestions_Get(r)
        \/ BatchReviewSuggestions_Respond(r)
        \/ executeAdd(r)
        \/ executeEdit(r)
        \/ executeDelete_Get(r)
        \/ executeDelete_Query(r)
        \/ executeDelete_Commit(r)
        \/ UpdateSuggestionStatus(r)
        \/ \E q \in SuggestionRequests :
             CreateSuggestion_Check(r, "contrib", q.type, q.target, q.name)
        \/ CreateSuggestion_Set(r)
        \/ \E u \in {"admin", "contrib"} : DeletePerson_Get(r, u, 2)
        \/ clearUserPersonLinks(r)
        \/ removeFromParentChildren_Query(r)
        \/ removeFromParentChildren_Update(r)
        \/ invalidateSuggestionsForPerson_Query(r)
        \/ invalidateSuggestionsForPerson_Update(r)
        \/ rejectIdentityClaimsForPerson_Query(r)
        \/ rejectIdentityClaimsForPerson_Update(r)
        \/ DeletePerson_Delete(r)
        \/ \E parent \in {None, 2} : CreatePerson(r, "editor", parent, "b")

SpecSuggestion == InitSuggestion /\ [][NextSuggestion]_vars

----------------------------------------------------------------------------
(* Properties of the suggestion workflow *)

\* C1: for every suggestion the tree mutation is executed at most once, and
\* exactly once when its status is approved.
C1_ExecutedAtMostOnce ==
    \A s \in SuggestionIds :
        /\ execCount[s] <= 1
        /\ (suggestions[s].exists /\ suggestions[s].status = "approved") => execCount[s] = 1

\* a ReviewSuggestion request on suggestion s by an approver arrives in this step
ReviewArrives(s) ==
    /\ started' = started + 1
    /\ \/ /\ resp'.op = "ReviewSuggestion"
          /\ resp'.ref = s
          /\ CanApprove(users[resp'.actor].role)
       \/ \E r \in Procs :
            /\ procs[r].pc = "idle"
            /\ procs'[r].pc # "idle"
            /\ procs'[r].op = "ReviewSuggestion"
            /\ procs'[r].sid = s

\* C2: a ReviewSuggestion call on a suggestion that is already approved is
\* answered 400 at once; it starts no execution, and leaves the tree, the
\* execution count and the suggestion (status, reviewer, notes) as they were.
C2_SecondApprovalRefused ==
    [][\A s \in SuggestionIds :
          (suggestions[s].exists /\ suggestions[s].status = "approved" /\ ReviewArrives(s))
          => /\ resp'.op = "ReviewSuggestion"
             /\ resp'.code = 400
             /\ procs' = procs
             /\ UNCHANGED <<people, suggestions, execCount>>]_vars

\* C2 witness: a review of an approved, once-executed suggestion was refused
C2_Witness ==
    /\ resp.op = "ReviewSuggestion"
    /\ resp.code = 400
    /\ suggestions[resp.ref].status = "approved"
    /\ suggestions[resp.ref].reviewed_by # resp.actor
    /\ execCount[resp.ref] = 1

\* C3: a suggestion's status only moves from pending to approved or rejected,
\* and an approved or rejected suggestion keeps its status for ever.
C3_StatusTerminal ==
    [][\A s \in SuggestionIds :
          suggestions[s].exists =>
             \/ suggestions'[s].status = suggestions[s].status
             \/ /\ suggestions[s].status = "pending"
                /\ suggestions'[s].status \in {"approved", "rejected"}]_vars

\* C4: once DeletePerson has returned 200 for a person, no children list
\* contains it, no user links to it, and no pending suggestion or pending
\* identity claim targets it, in every later state.
C4_DeletedPersonUnreferenced ==
    \A P \in deletedOK :
        /\ \A q \in PersonIds : people[q].exists => P \notin Range(people[q].children)
        /\ \A u \in UserIds : users[u].exists => users[u].person_id # P
        /\ PendingSuggestionsFor(P) = {}
        /\ PendingClaimsFor(P) = {}

\* C6: a CreatePerson answered 201 for a child of a parent, and an executeAdd
\* that succeeds for an add suggestion with a target, leave the new person in
\* the store and its id exactly once in the parent's children.
C6_ChildCreatedUnderParent ==
    [][/\ (resp'.op = "CreatePerson" /\ resp'.code = 201 /\ resp'.parent # None)
          => /\ people'[resp'.ref].exists
             /\ Count(people'[resp'.parent].children, resp'.ref) = 1
       /\ \A r \in Procs :
            (/\ procs[r].pc = "exec"
             /\ procs[r].s.type = "add"
             /\ procs[r].s.target_person_id # None
             /\ procs'[r].pc = "update")
            => /\ people'[nextPerson].exists
               /\ Count(people'[procs[r].s.target_person_id].children, nextPerson) = 1]_vars

\* C6 witness: a child was created under a parent directly, after an add
\* suggestion with a target had been executed
C6_Witness ==
    /\ resp.op = "CreatePerson"
    /\ resp.code = 201
    /\ resp.parent # None
    /\ Len(people[resp.parent].children) = 2
    /\ \E s \in SuggestionIds :
         /\ suggestions[s].type = "add"
         /\ suggestions[s].target_person_id = resp.parent
         /\ execCount[s] = 1

----------------------------------------------------------------------------
(* Specification of identity linking: users claim persons, the admin reviews *)
(* claims, links users to persons directly and unlinks them.                 *)

InitIdentity ==
    /\ people = InitPeople
    /\ users = InitUsers
    /\ suggestions = [s \in SuggestionIds |-> NoSuggestion]
    /\ \E seeded \in BOOLEAN :
         claims = [c \in ClaimIds |->
             IF seeded /\ c = 1 THEN PendingClaim("viewer", 2) ELSE NoClaim]
    /\ permreqs = [q \in RequestIds |-> NoRequest]
    /\ procs = [r \in Procs |-> Idle]
    /\ nextPerson = 3
    /\ started = 0
    /\ execCount = [s \in SuggestionIds |-> 0]
    /\ deletedOK = {}
    /\ history = NoHistory
    /\ resp = NoResp
    /\ InitSSE

NextIdentity ==
    \E r \in Procs :
        \/ \E u \in {"viewer", "contrib"}, pid \in {1, 2} : ClaimIdentity(r, u, pid)
        \/ ClaimIdentity_GetPerson(r)
        \/ ClaimIdentity_PendingQuery(r)
        \/ ClaimIdentity_Set(r)
        \/ \E cid \in ClaimIds, approved \in BOOLEAN :
             ReviewIdentityClaim_Get(r, "admin", cid, approved, "n")
        \/ ReviewIdentityClaim_Commit(r)
        \/ \E u \in {"admin", "coadmin"} : UnlinkIdentity_Query(r, u, "viewer")
        \/ UnlinkIdentity_Update(r)
        \/ \E u \in {"admin", "coadmin"}, target \in {"viewer", "coadmin"}, pid \in {1, 2} :
             LinkUserToPerson(r, u, target, pid)
        \/ LinkUserToPerson_LinkQuery(r)
        \/ LinkUserToPerson_GetPerson(r)
        \/ LinkUserToPerson_Update(r)

SpecIdentity == InitIdentity /\ [][NextIdentity]_vars

----------------------------------------------------------------------------
(* Properties of identity linking *)

\* C5: for every user, at most one person has linked_user_id equal to that user.
C5_OnePersonPerUser ==
    \A u \in UserIds : Cardinality(LinkedPersons(u)) <= 1

\* C8: every user has at most one pending identity claim.
C8_OnePendingClaimPerUser ==
    \A u \in UserIds : Cardinality(PendingClaimsOf(u)) <= 1

----------------------------------------------------------------------------
(* Specification of permission requests: users ask for a role, the admin     *)
(* approves or rejects.                                                      *)

InitPerm ==
    /\ people = InitPeople
    /\ users = InitUsers
    /\ suggestions = [s \in SuggestionIds |-> NoSuggestion]
    /\ claims = [c \in ClaimIds |-> NoClaim]
    /\ \E seeded \in BOOLEAN :
         permreqs = [q \in RequestIds |->
             IF seeded /\ q = 1 THEN PendingRequest("viewer", RoleContributor)
             ELSE NoRequest]
    /\ procs = [r \in Procs |-> Idle]
    /\ nextPerson = 3
    /\ started = 0
    /\ execCount = [s \in SuggestionIds |-> 0]
    /\ deletedOK = {}
    /\ history = NoHistory
    /\ resp = NoResp
    /\ InitSSE

NextPerm ==
    \E r \in Procs :
        \/ \E u \in {"viewer", "contrib"}, role \in {RoleContributor, RoleCoAdmin, RoleEditor} :
             RequestPermission(r, u, role)
        \/ RequestPermission_Add(r)
        \/ \E u \in {"admin", "coadmin"}, id \in RequestIds :
             ApprovePermissionRequest_Get(r, u, id)
        \/ ApprovePermissionRequest_UpdateUser(r)
        \/ ApprovePermissionRequest_UpdateRequest(r)
        \/ \E id \in RequestIds : RejectPermissionRequest_Get(r, "admin", id)
        \/ RejectPermissionRequest_Update(r)

SpecPerm == InitPerm /\ [][NextPerm]_vars

\* C7: every user has at most one pending permission request.
C7_OnePendingRequestPerUser ==
    \A u \in UserIds : Cardinality(PendingRequestsOf(u)) <= 1

----------------------------------------------------------------------------
(* Specification of concurrent likes: users like the two persons of the      *)
(* initial tree, which nobody has liked yet.                                 *)

InitLike ==
    /\ people = InitPeople
    /\ users = InitUsers
    /\ suggestions = [s \in SuggestionIds |-> NoSuggestion]
    /\ claims = [c \in ClaimIds |-> NoClaim]
    /\ permreqs = [q \in RequestIds |-> NoRequest]
    /\ procs = [r \in Procs |-> Idle]
    /\ nextPerson = 3
    /\ started = 0
    /\ execCount = [s \in SuggestionIds |-> 0]
    /\ deletedOK = {}
    /\ history = NoHistory
    /\ resp = NoResp
    /\ InitSSE

NextLike ==
    \E r \in Procs :
        \/ \E u \in UserIds, pid \in {1, 2} : LikePerson(r, u, pid)
        \/ Like_Commit(r)

SpecLike == InitLike /\ [][NextLike]_vars

\* the users that have sent a Like for person P
LikersOf(P) == {u \in UserIds : <<P, u>> \in history.likes}

LikeInFlight(P) == \E r \in Procs : procs[r].pc = "like_commit" /\ procs[r].pid = P

\* C9: when every Like sent for a person that started with no likes has
\* completed, likes_count is the number of distinct users that sent one and
\* liked_by holds exactly those users, once each.
C9_ConcurrentLikesConverge ==
    \A P \in PersonIds :
        (people[P].exists /\ ~LikeInFlight(P))
        => /\ people[P].likes_count = Cardinality(LikersOf(P))
           /\ Len(people[P].liked_by) = Cardinality(LikersOf(P))
           /\ Range(people[P].liked_by) = LikersOf(P)

\* C9 witness: two likes of one person overlapped (the second had to run its
\* transaction twice) and both have completed
C9_Witness ==
    /\ resp.op = "LikePerson"
    /\ resp.code = 200
    /\ resp.attempts = 2
    /\ people[resp.ref].likes_count = 2
    /\ \A r \in Procs : procs[r].pc = "idle"

----------------------------------------------------------------------------
(* Specification of the scrub: person 1 may carry likes; users are deleted   *)
(* by the delete_users tool; likes, unlikes and GetAllPeople with its        *)
(* background scrubs interleave.                                             *)

InitScrub ==
    /\ \E likers \in {<<>>, <<"viewer", "contrib">>} :
         people = [InitPeople EXCEPT ![1].liked_by = likers,
                                     ![1].likes_count = Len(likers)]
    /\ users = InitUsers
    /\ suggestions = [s \in SuggestionIds |-> NoSuggestion]
    /\ claims = [c \in ClaimIds |-> NoClaim]
    /\ permreqs = [q \in RequestIds |-> NoRequest]
    /\ procs = [r \in Procs |-> Idle]
    /\ nextPerson = 3
    /\ started = 0
    /\ execCount = [s \in SuggestionIds |-> 0]
    /\ deletedOK = {}
    /\ history = NoHistory
    /\ resp = NoResp
    /\ InitSSE

NextScrub ==
    \/ \E u \in {"viewer", "contrib"} : delete_users(u)
    \/ \E r \in Procs :
        \/ \E u \in {"viewer", "editor"} : LikePerson(r, u, 1)
        \/ \E u \in {"viewer", "contrib"} : UnlikePerson(r, u, 1)
        \/ Like_Commit(r)
        \/ GetAllPeople(r, "admin")
        \/ GetAllPeople_Users(r)
        \/ \E q \in PersonIds :
             \/ ValidatePersonReferences_Get(r, q)
             \/ ValidatePersonReferences_Check(r, q)
             \/ ValidatePersonReferences_Update(r, q)

SpecScrub == InitScrub /\ [][NextScrub]_vars

\* C10: once a GetAllPeople has run and the scrubs it started have all
\* returned, every person's likes_count is the length of its liked_by.
C10_LikesCountMatches ==
    history.readAllDone > 0
    => \A P \in PersonIds :
          people[P].exists => people[P].likes_count = Len(people[P].liked_by)

\* C10 witness: a GetAllPeople has completed with its scrubs, one of which
\* removed a deleted user from person 1's liked_by and left one liker
C10_Witness ==
    /\ history.readAllDone > 0
    /\ 1 \in history.scrubbed
    /\ people[1].likes_count = 1
    /\ Len(people[1].liked_by) = 1
    /\ \A r \in Procs : procs[r].pc = "idle"

\* C11: every identity claim with status approved targets a person that
\* exists and whose linked_user_id is the claim's user.
C11_ApprovedClaimLinked ==
    \A c \in ClaimIds :
        (claims[c].exists /\ claims[c].status = "approved")
        => /\ people[claims[c].person_id].exists
           /\ people[claims[c].person_id].linked_user_id = claims[c].user_id

----------------------------------------------------------------------------
(* Specification of the direct tree mutations: updates, deletions (with the *)
(* cascade) and creations by the admin, a co-admin and the editor who       *)
(* created the initial persons.                                             *)

NextTree ==
    \E r \in Procs :
        \/ \E u \in {"admin", "coadmin", "editor"}, pid \in {1, 2}, req \in UpdateRequests :
             UpdatePerson_Get(r, u, pid, req)
        \/ UpdatePerson_Update(r)
        \/ \E u \in {"admin", "coadmin", "editor"}, pid \in {1, 2} :
             DeletePerson_Get(r, u, pid)
        \/ clearUserPersonLinks(r)
        \/ removeFromParentChildren_Query(r)
        \/ removeFromParentChildren_Update(r)
        \/ invalidateSuggestionsForPerson_Query(r)
        \/ invalidateSuggestionsForPerson_Update(r)
        \/ rejectIdentityClaimsForPerson_Query(r)
        \/ rejectIdentityClaimsForPerson_Update(r)
        \/ DeletePerson_Delete(r)
        \/ \E parent \in {None, 1} : CreatePerson(r, "coadmin", parent, "b")
        \/ \E children \in {<<2>>, <<1, 2>>} :
             CreatePersonAsParent_Start(r, "editor", "b", children)
        \/ CreatePersonAsParent_Query(r)
        \/ CreatePersonAsParent_Commit(r)

SpecTree == InitSuggestion /\ [][NextTree]_vars

\* C12: an Update or Delete of a person is carried out only for the person's
\* creator or an admin: a request for an existing person by anybody else is
\* answered 403 and leaves the person and every document referring to it
\* unchanged, no such request gets past the ownership check, and every
\* successful answer comes from a request that got past it.
C12_OnlyCreatorOrAdminModifies ==
    [][LET IsCreatorOrAdmin(pid, u) ==
               people[pid].created_by = u \/ users[u].role = "admin"
       IN
       /\ \A r \in Procs :
            (procs[r].pc = "idle" /\ procs'[r].pc # "idle" /\ procs'[r].op \in {"UpdatePerson", "DeletePerson"})
            => /\ people[procs'[r].pid].exists
               /\ IsCreatorOrAdmin(procs'[r].pid, procs'[r].tok.user_id)
       /\ (resp'.op \in {"UpdatePerson", "DeletePerson"} /\ resp'.code = 200)
            => \E r \in Procs :
                 /\ procs[r].pc # "idle"
                 /\ procs[r].op = resp'.op
                 /\ procs[r].pid = resp'.ref
                 /\ procs[r].tok.user_id = resp'.actor
                 /\ procs'[r].pc = "idle"
                 /\ people[resp'.ref].exists => IsCreatorOrAdmin(resp'.ref, resp'.actor)
       /\ (/\ resp'.op \in {"UpdatePerson", "DeletePerson"}
           /\ started' = started + 1
           /\ people[resp'.ref].exists
           /\ ~IsCreatorOrAdmin(resp'.ref, resp'.actor))
            => /\ resp'.code = 403
               /\ UNCHANGED <<people, users, suggestions, claims>>
               /\ UNCHANGED procs
      ]_vars

\* a co-admin, who may edit the tree directly, was refused the update of a
\* person somebody else created
C12_Witness ==
    /\ resp.op = "UpdatePerson"
    /\ resp.code = 403
    /\ resp.actor = "coadmin"
    /\ people[resp.ref].exists
    /\ people[resp.ref].created_by = "editor"

----------------------------------------------------------------------------
(* Further properties of the permission requests *)

\* C13: approving a permission request sets the user's role and the
\* request's status together: every step that changes a user's role marks a
\* request approved and the other way round, so no state has only one of the
\* two changes.
C13_RoleAndStatusTogether ==
    [][(\E u \in UserIds : users'[u].role # users[u].role)
       <=> (\E q \in RequestIds :
              /\ permreqs[q].status # "approved"
              /\ permreqs'[q].status = "approved")]_vars

----------------------------------------------------------------------------
(* Specification of reviews: identity-claim reviews by the admin and        *)
(* suggestion reviews by users of every role race the deletion of the       *)
(* person they concern                                                      *)

NextReview ==
    \E r \in Procs :
        \/ \E cid \in ClaimIds, approved \in BOOLEAN :
             ReviewIdentityClaim_Get(r, "admin", cid, approved, "n")
        \/ ReviewIdentityClaim_Commit(r)
        \/ \E u \in UserIds, sid \in SuggestionIds, approved \in BOOLEAN :
             ReviewSuggestion_Get(r, u, sid, approved, "n")
        \/ executeAdd(r)
        \/ executeEdit(r)
        \/ executeDelete_Get(r)
        \/ executeDelete_Query(r)
        \/ executeDelete_Commit(r)
        \/ UpdateSuggestionStatus(r)
        \/ DeletePerson_Get(r, "admin", 2)
        \/ clearUserPersonLinks(r)
        \/ removeFromParentChildren_Query(r)
        \/ removeFromParentChildren_Update(r)
        \/ invalidateSuggestionsForPerson_Query(r)
        \/ invalidateSuggestionsForPerson_Update(r)
        \/ rejectIdentityClaimsForPerson_Query(r)
        \/ rejectIdentityClaimsForPerson_Update(r)
        \/ DeletePerson_Delete(r)

SpecReview == InitSuggestion /\ [][NextReview]_vars

\* C14: the approval of an identity claim applies the claim's status, the
\* user's is_verified and the person's linked_user_id in one step: the step
\* that ends an approving review either answers 200 and shows all three, or
\* fails and leaves claims, users and people as they were; and no step marks
\* a claim approved without the other two.
C14_ApprovalAllOrNothing ==
    [][/\ \A r \in Procs :
            (procs[r].pc = "claim_commit" /\ procs[r].approved /\ procs'[r].pc = "idle")
            => LET c == procs[r].claim IN
               \/ /\ resp'.code = 200
                  /\ claims'[procs[r].cid].status = "approved"
                  /\ users'[c.user_id].exists
                  /\ users'[c.user_id].is_verified
                  /\ people'[c.person_id].exists
                  /\ people'[c.person_id].linked_user_id = c.user_id
               \/ /\ resp'.code # 200
                  /\ UNCHANGED <<claims, users, people>>
       /\ \A cid \in ClaimIds :
            (claims[cid].status # "approved" /\ claims'[cid].status = "approved")
            => /\ users'[claims'[cid].user_id].is_verified
               /\ people'[claims'[cid].person_id].exists
               /\ people'[claims'[cid].person_id].linked_user_id = claims'[cid].user_id
      ]_vars

\* an approval was answered 200 and its three writes are in the store
C14_Witness ==
    /\ resp.op = "ReviewIdentityClaim"
    /\ resp.code = 200
    /\ claims[resp.ref].status = "approved"
    /\ users[claims[resp.ref].user_id].is_verified
    /\ people[claims[resp.ref].person_id].linked_user_id = claims[resp.ref].user_id

----------------------------------------------------------------------------
(* Further properties of the suggestion workflow *)

\* C15: when the tree mutation of a suggestion under approval fails, the
\* review ends with a 500 and writes nothing to the suggestion: a single
\* review leaves its execution phase either through the failure answer, with
\* the suggestions unchanged, or to the status update after a counted
\* execution; and an execution that finds its target missing fails.
C15_FailedExecutionLeavesStatus ==
    [][\A r \in Procs :
         LET p == procs[r] IN
         (p.pc \in {"exec", "del_query", "del_commit"} /\ p.op = "ReviewSuggestion")
         => /\ procs'[r].pc = "idle"
                 => /\ resp' = Response("ReviewSuggestion", 500, p.sid, p.tok.user_id)
                    /\ suggestions' = suggestions
            /\ procs'[r].pc = "update"
                 => execCount'[p.sid] = execCount[p.sid] + 1
            /\ (/\ p.pc = "exec"
                /\ p.s.target_person_id # None
                /\ ~people[p.s.target_person_id].exists
                /\ procs'[r] # p)
                 => /\ procs'[r].pc = "idle"
                    /\ resp'.code = 500
      ]_vars

\* a single approval has just failed and its suggestion is still pending
\* with no reviewer
C15_Witness ==
    /\ resp.op = "ReviewSuggestion"
    /\ resp.code = 500
    /\ suggestions[resp.ref].status = "pending"
    /\ suggestions[resp.ref].reviewed_by = ""

\* C16: the execution of an approved delete suggestion does what the tree's
\* Delete does: when it has deleted the person, no parent lists the person
\* as a child, and no other pending suggestion and no pending identity claim
\* targets it.
C16_ExecuteDeleteCascades ==
    [][\A r \in Procs :
         (procs[r].pc = "del_commit" /\ procs'[r].pc = "update")
         => LET t == procs[r].s.target_person_id IN
            /\ ~people'[t].exists
            /\ \A q \in PersonIds : people'[q].exists => t \notin Range(people'[q].children)
            /\ \A s \in SuggestionIds \ {procs[r].sid} :
                 ~(/\ suggestions'[s].exists
                   /\ suggestions'[s].status = "pending"
                   /\ suggestions'[s].target_person_id = t)
            /\ \A c \in ClaimIds :
                 ~(/\ claims'[c].exists
                   /\ claims'[c].status = "pending"
                   /\ claims'[c].person_id = t)
      ]_vars

----------------------------------------------------------------------------
(* Further properties of the direct tree mutations *)

\* C17: a create under a parent that does not exist, once past the role gate
\* and the validation, is answered NotFound (404) and writes nothing: no new
\* person and no change to any children list.
C17_AbsentParentNotFound ==
    [][(/\ resp'.op = "CreatePerson"
        /\ started' = started + 1
        /\ resp'.parent # None
        /\ ~people[resp'.parent].exists
        /\ resp'.code \notin {400, 403})
       => /\ resp'.code = 404
          /\ people' = people]_vars

\* C18: when a create with children C succeeds, every id in C is in the
\* children of exactly one person, the new one.
C18_ChildrenMovedToNewParent ==
    [][\A r \in Procs :
         (procs[r].pc = "asparent_query" /\ procs'[r].pc = "idle" /\ resp'.code = 201)
         => \A c \in Range(procs[r].children) :
              {q \in PersonIds : people'[q].exists /\ c \in Range(people'[q].children)}
                  = {resp'.ref}
      ]_vars

----------------------------------------------------------------------------
(* Further properties of identity linking *)

\* C19: a direct link of user U to person P that is answered 200 makes the
\* writes of an approved review in one step: P.linked_user_id = U and
\* U.is_verified = TRUE.
C19_DirectLinkLikeApproval ==
    [][\A r \in Procs :
         (procs[r].pc = "link_update" /\ procs'[r].pc = "idle" /\ resp'.code = 200)
         => /\ people'[procs[r].pid].linked_user_id = procs[r].target
            /\ users'[procs[r].target].is_verified
      ]_vars

----------------------------------------------------------------------------
(* Specification of the bulk import: texts are imported into an empty tree *)
(* and the tree is read                                                     *)

InitImport ==
    /\ people = [q \in PersonIds |-> NoPerson]
    /\ users = InitUsers
    /\ suggestions = [s \in SuggestionIds |-> NoSuggestion]
    /\ claims = [c \in ClaimIds |-> NoClaim]
    /\ permreqs = [q \in RequestIds |-> NoRequest]
    /\ procs = [r \in Procs |-> Idle]
    /\ nextPerson = 1
    /\ started = 0
    /\ execCount = [s \in SuggestionIds |-> 0]
    /\ deletedOK = {}
    /\ history = NoHistory
    /\ resp = NoResp
    /\ InitSSE

NextImport ==
    \E r \in Procs :
        \/ \E n \in 0..MaxLines :
             \E lines \in [1..n -> {<<>>, <<"a">>, <<" ", "a">>, <<"\t", "a", " ">>}] :
                 PopulateTreeFromText(r, "admin", JoinLines(lines))
        \/ GetAllPeople(r, "viewer")
        \/ GetAllPeople_Users(r)

SpecImport == InitImport /\ [][NextImport]_vars

\* C20: every imported person that no person lists as a child comes from a
\* line whose computed level is 0.
C20_ImportedRootsHaveDepthZero ==
    \A e \in history.imported :
        (people[e[1]].exists /\ ParentsOf(e[1]) = {}) => e[2] = 0

\* C21: after a bulk import, in the stored tree and in every collection a
\* ReadAll has read, an imported person lists another one as a child exactly
\* when the stack rule on the text makes it the parent, and an imported person
\* lists nobody else.  The stack rule: x is the nearest line before y, in the
\* same import, whose level is strictly smaller than y's.
C21_ImportedEdgesFollowStackRule ==
    LET ListsChild(P, x, y) == P[x].exists /\ y \in Range(P[x].children)
        StackParent(x, y) ==
            /\ x[3] = y[3]
            /\ x[1] < y[1]
            /\ x[2] < y[2]
            /\ \A z \in history.imported :
                 (z[3] = y[3] /\ x[1] < z[1] /\ z[1] < y[1]) => z[2] >= y[2]
    IN
    \A P \in {people} \cup {procs[r].people : r \in {q \in Procs : procs[q].pc = "readall_users"}} :
        \A x \in history.imported :
            P[x[1]].exists =>
                /\ \A y \in history.imported :
                     ListsChild(P, x[1], y[1]) <=> StackParent(x, y)
                /\ Range(P[x[1]].children) \subseteq {y[1] : y \in history.imported}

\* a ReadAll has answered after the import of a text whose third line is the
\* child of its first line
C21_Witness ==
    /\ resp.op = "GetAllPeople"
    /\ resp.code = 200
    /\ \E x, y \in history.imported :
         /\ y[1] = x[1] + 2
         /\ people[x[1]].exists
         /\ y[1] \in Range(people[x[1]].children)

----------------------------------------------------------------------------
(* Specification of the user accounts: two user ids are free for new        *)
(* registrations and the co-admin may have been made a second admin;        *)
(* registrations, role updates and revocations interleave with the editor's *)
(* logins and with creations under the tokens issued.                       *)

InitAccounts ==
    /\ people = InitPeople
    /\ \E second \in {RoleCoAdmin, RoleAdmin} :
         users = [u \in UserIds |->
                     IF u \in {"contrib", "viewer"} THEN NoUser
                     ELSE IF u = "coadmin" THEN [InitUsers[u] EXCEPT !.role = second]
                     ELSE InitUsers[u]]
    /\ suggestions = [s \in SuggestionIds |-> NoSuggestion]
    /\ claims = [c \in ClaimIds |-> NoClaim]
    /\ permreqs = [q \in RequestIds |-> NoRequest]
    /\ procs = [r \in Procs |-> Idle]
    /\ nextPerson = 3
    /\ started = 0
    /\ execCount = [s \in SuggestionIds |-> 0]
    /\ deletedOK = {}
    /\ history = NoHistory
    /\ resp = NoResp
    /\ InitSSE

NextAccounts ==
    \E r \in Procs :
        \/ \E email \in {"", "admin", "x", "y"}, treeName \in {"tree", "other"} :
             Register_Query(r, email, treeName)
        \/ Register_Add(r)
        \/ \E u \in {"admin", "coadmin"}, target \in {"admin", "coadmin", "editor"},
              role \in {RoleViewer, RoleEditor, RoleAdmin} :
             UpdateUserRole_Get(r, u, target, role)
        \/ \E u \in {"admin", "coadmin"}, target \in {"admin", "coadmin", "editor"} :
             RevokeUserAccess_Get(r, u, target)
        \/ RoleChange_Update(r)
        \/ Login("editor")
        \/ \E tok \in history.tokens : CreatePersonAs(r, tok, None, "b")

SpecAccounts == InitAccounts /\ [][NextAccounts]_vars

\* C22: no two user records share an email.
C22_EmailUnique ==
    \A u, v \in UserIds :
        (users[u].exists /\ users[v].exists /\ users[u].email = users[v].email) => u = v

\* C29: a role update or revoke whose acting user is its target is refused
\* and writes nothing, and no role update or revoke is carried on for the
\* acting user's own record.
C29_NoSelfRoleChange ==
    [][/\ (/\ resp'.op \in {"UpdateUserRole", "RevokeUserAccess"}
           /\ started' = started + 1
           /\ resp'.actor = resp'.ref)
          => /\ resp'.code \in {400, 403}
             /\ users' = users
       /\ \A r \in Procs :
            (procs'[r].pc = "role_update") => procs'[r].tok.user_id # procs'[r].target
      ]_vars

\* an admin has just been refused the change of their own role
C29_Witness ==
    /\ resp.op \in {"UpdateUserRole", "RevokeUserAccess"}
    /\ resp.code = 400
    /\ resp.actor = resp.ref
    /\ users[resp.actor].role = "admin"

----------------------------------------------------------------------------
(* Properties of the role gates *)

\* C23: only a co-admin or an admin gets a review of a suggestion past the
\* gate: a review by a viewer, a contributor or an editor is answered 403 and
\* leaves the suggestions and the tree unchanged, and every review that is
\* carried on, up to its status update, belongs to a co-admin or an admin.
C23_OnlyApproversReview ==
    [][/\ (/\ resp'.op = "ReviewSuggestion"
           /\ started' = started + 1
           /\ users[resp'.actor].role \in {"viewer", "contributor", "editor"})
          => /\ resp'.code = 403
             /\ UNCHANGED <<suggestions, people, procs>>
       /\ \A r \in Procs :
            (procs'[r].pc # "idle" /\ procs'[r].op = "ReviewSuggestion")
            => users[procs'[r].tok.user_id].role \in {"co-admin", "admin"}
      ]_vars

\* an editor has just been refused the review of a pending suggestion
C23_Witness ==
    /\ resp.op = "ReviewSuggestion"
    /\ resp.code = 403
    /\ users[resp.actor].role = "editor"
    /\ suggestions[resp.ref].exists
    /\ suggestions[resp.ref].status = "pending"

\* C30: for every role (each of the five, and the role stored for any user),
\* the right to manage users implies the right to approve, which implies the
\* rights to edit directly and to suggest.
C30_RoleRightsNested ==
    \A r \in {"viewer", "contributor", "editor", "co-admin", "admin"}
                \cup {users[u].role : u \in UserIds} :
        /\ CanManageUsers(r) => CanApprove(r)
        /\ CanApprove(r) => CanEditDirectly(r)
        /\ CanApprove(r) => CanSuggest(r)

\* a co-admin, who may approve, has edited the tree directly
C30_Witness ==
    /\ resp.op = "CreatePerson"
    /\ resp.code = 201
    /\ CanApprove(users[resp.actor].role)
    /\ ~CanManageUsers(users[resp.actor].role)

----------------------------------------------------------------------------
(* Properties of the batch review *)

----------------------------------------------------------------------------
(* Specification of the grouped view: any store of up to MaxPending         *)
(* suggestions, of which the grouped view is asked                          *)

InitGrouped ==
    /\ people = InitPeople
    /\ users = InitUsers
    /\ suggestions \in [1..MaxPending ->
           {NoSuggestion}
           \cup {[NoSuggestion EXCEPT !.exists = TRUE, !.type = "edit",
                    !.target_person_id = t, !.name = nm, !.status = "pending",
                    !.user_id = "contrib"] : t \in {1, 2}, nm \in {"a", "b"}}
           \cup {[NoSuggestion EXCEPT !.exists = TRUE, !.type = "delete",
                    !.target_person_id = t, !.status = "pending",
                    !.user_id = "contrib"] : t \in {1, 2}}
           \cup {[NoSuggestion EXCEPT !.exists = TRUE, !.type = "add",
                    !.target_person_id = 1, !.name = "a", !.status = st,
                    !.user_id = "contrib"] : st \in {"pending", "approved"}}]
    /\ claims = [c \in ClaimIds |-> NoClaim]
    /\ permreqs = [q \in RequestIds |-> NoRequest]
    /\ procs = [r \in Procs |-> Idle]
    /\ nextPerson = 3
    /\ started = 0
    /\ execCount = [s \in SuggestionIds |-> 0]
    /\ deletedOK = {}
    /\ history = NoHistory
    /\ resp = NoResp
    /\ InitSSE

NextGrouped ==
    \E r \in Procs :
        \E status \in {"pending", "approved"} : GetGroupedSuggestions(r, "admin", status)

SpecGrouped == InitGrouped /\ [][NextGrouped]_vars

\* C27: in the grouped view, whenever a delete group and an edit group have
\* the same target, both are flagged as conflicting, the delete group's
\* conflict list names the edit group, and the edit group's list names the
\* delete group.
C27_DeleteEditConflictsComplete ==
    resp.op = "GetGroupedSuggestions"
    => \A i, j \in 1..Len(resp.groups) :
         LET d == resp.groups[i]
             e == resp.groups[j] IN
         (d.type = "delete" /\ e.type = "edit"
            /\ d.target_person_id = e.target_person_id)
         => /\ d.has_conflicts
            /\ e.has_conflicts
            /\ \E k \in 1..Len(d.conflicts_with) : d.conflicts_with[k] = e.group_id
            /\ \E k \in 1..Len(e.conflicts_with) : e.conflicts_with[k] = d.group_id

----------------------------------------------------------------------------
(* Specification of the admin event stream: two stream requests, their      *)
(* clients going away at any time, and the changes of the suggestions that  *)
(* their watcher broadcasts                                                 *)

NextStream ==
    \/ \E c \in ClientIds :
         \/ \E u \in {"admin", "editor"} : AdminStream_Register(c, u)
         \/ AdminStream_Connected(c)
         \/ sendInitialAdminData(c)
         \/ RequestCancelled(c)
         \/ AdminStream_Deliver(c)
         \/ AdminStream_Lock(c)
         \/ AdminStream_Done(c)
    \/ watchCollection("suggestions")
    \/ \E c \in ClientIds : broadcastToAdmins_Send("suggestions", c)

SpecStream == InitImport /\ [][NextStream]_vars

\* every handler and every broadcast is a goroutine that the scheduler runs
\* on; the select takes a ready case with equal chance, so that a cancelled
\* context is seen at last
FairStream ==
    /\ SpecStream
    /\ \A c \in ClientIds :
         /\ WF_vars(AdminStream_Connected(c))
         /\ WF_vars(sendInitialAdminData(c))
         /\ WF_vars(AdminStream_Lock(c))
         /\ WF_vars(AdminStream_Done(c))
    /\ \A c \in ClientIds : WF_vars(broadcastToAdmins_Send("suggestions", c))

\* C24: a broadcast visits every client that is registered when it starts,
\* one client a step and without waiting: for a client whose channel already
\* holds as many events as it has room for, the event is dropped and that
\* channel is left as it is; for a client with room the event is appended to
\* its channel; no other channel changes, and the broadcast goes on with the
\* clients that are left.
C24_FullChannelDropsForThatClientOnly ==
    [][\A w \in DOMAIN watchers :
         /\ (watchers[w].todo = {} /\ watchers'[w] # watchers[w])
              => watchers'[w].todo = adminClients
         /\ (watchers[w].todo # {} /\ watchers'[w] # watchers[w])
              => \E c \in watchers[w].todo :
                   /\ watchers'[w].todo = watchers[w].todo \ {c}
                   /\ watchers'[w].msg = watchers[w].msg
                   /\ IF Len(messageChan[c].buf) >= MaxBuffered
                      THEN messageChan'[c] = messageChan[c]
                      ELSE messageChan'[c].buf = Append(messageChan[c].buf, watchers[w].msg)
                   /\ \A d \in ClientIds \ {c} : messageChan'[d] = messageChan[d]
      ]_vars

\* an event was dropped for one client, whose channel was full, and another
\* client has got the same event
C24_Witness ==
    \E c, d \in ClientIds : \E n \in 1..MaxEvents :
        /\ c # d
        /\ <<c, n>> \in history.dropped
        /\ \/ \E k \in 1..Len(messageChan[d].buf) : messageChan[d].buf[k].n = n
           \/ \E k \in 1..Len(streams[d].written) : streams[d].written[k].n = n

\* C25: once the request context of a registered stream is cancelled, the
\* handler eventually returns, with the client taken out of the registry and
\* its channel closed; and a stream whose handler has returned has no entry
\* in the registry.
C25_CancelledStreamIsRemoved ==
    /\ \A c \in ClientIds :
         streams[c].cancelled
           ~> (streams[c].pc = "returned" /\ c \notin adminClients /\ messageChan[c].closed)
    /\ [](\A c \in ClientIds : streams[c].pc = "returned" => c \notin adminClients)

\* a stream was cancelled and its handler has returned
C25_Witness ==
    \E c \in ClientIds :
        /\ streams[c].cancelled
        /\ streams[c].pc = "returned"
        /\ messageChan[c].closed

----------------------------------------------------------------------------
(* Properties of the deletion of a user *)

\* C31: once a user is deleted, no person is linked to that user, no
\* person's liked_by holds the user, and no permission request, identity
\* claim or suggestion of the user is pending.
C31_DeletedUserUnreferenced ==
    \A u \in UserIds :
        ~users[u].exists
        => /\ \A P \in PersonIds :
                people[P].exists
                => /\ people[P].linked_user_id # u
                   /\ \A k \in 1..Len(people[P].liked_by) : people[P].liked_by[k] # u
           /\ \A q \in RequestIds :
                ~(permreqs[q].exists /\ permreqs[q].user_id = u
                    /\ permreqs[q].status = "pending")
           /\ \A c \in ClaimIds :
                ~(claims[c].exists /\ claims[c].user_id = u /\ claims[c].status = "pending")
           /\ \A s \in SuggestionIds :
                ~(suggestions[s].exists /\ suggestions[s].user_id = u
                    /\ suggestions[s].status = "pending")

\* C32: when a background scrub writes a person, every reference the person
\* holds at that moment to a user or a person that exists is still there
\* after the write: likers, children and the linked user that are not
\* dangling are kept, whatever the scrub read earlier.
C32_ScrubKeepsNewerMutations ==
    [][\A r \in Procs : \A q \in PersonIds :
         (/\ procs[r].pc = "scrub"
          /\ q \in DOMAIN procs[r].scrubs
          /\ procs[r].scrubs[q].pc = "update"
          /\ procs'[r] # procs[r]
          /\ people[q].exists)
         => /\ \A k \in 1..Len(people[q].liked_by) :
                 users[people[q].liked_by[k]].exists
                 => \E j \in 1..Len(people'[q].liked_by) :
                        people'[q].liked_by[j] = people[q].liked_by[k]
            /\ \A k \in 1..Len(people[q].children) :
                 people[people[q].children[k]].exists
                 => \E j \in 1..Len(people'[q].children) :
                        people'[q].children[j] = people[q].children[k]
            /\ (people[q].linked_user_id # "" /\ users[people[q].linked_user_id].exists)
                 => people'[q].linked_user_id = people[q].linked_user_id
      ]_vars

----------------------------------------------------------------------------
(* Properties of the teardown of a stream *)

\* C33: every send of a broadcast goes to a channel that is not closed,
\* however the broadcasts interleave with the teardown of the streams.
C33_NoSendOnClosedChannel ==
    [][\A w \in DOMAIN watchers : \A c \in ClientIds :
         (c \in watchers[w].todo /\ c \notin watchers'[w].todo)
         => ~messageChan[c].closed
      ]_vars

\* a broadcast still has to send to a client whose handler already waits
\* for the lock to tear the stream down
C33_Witness ==
    \E w \in DOMAIN watchers : \E c \in ClientIds :
        /\ c \in watchers[w].todo
        /\ streams[c].pc = "closing"

----------------------------------------------------------------------------
(* Properties of UpdatePerson's children *)

\* C34: an UpdatePerson of an actor who is not an admin leaves the person's
\* children as they were.
C34_OnlyAdminUpdatesChildren ==
    [][(/\ resp'.op = "UpdatePerson"
        /\ \E r \in Procs : procs[r].pc = "update_person" /\ procs'[r].pc = "idle"
        /\ users[resp'.actor].role # "admin")
       => people'[resp'.ref].children = people[resp'.ref].children
      ]_vars

----------------------------------------------------------------------------
(* Properties of revoked and lowered roles *)

\* C35: a request to create a person (an operation gated at editor) by a
\* user whose role in the store is below editor is refused, whatever token
\* the user presents.
C35_StaleTokenRefused ==
    [][(/\ resp'.op = "CreatePerson"
        /\ started' = started + 1
        /\ users[resp'.actor].exists
        /\ users[resp'.actor].role \in {"viewer", "contributor"})
       => resp'.code = 403
      ]_vars

----------------------------------------------------------------------------
(* Properties of the person-deletion cascade *)

\* C36: when the deletion of a person that is linked to a user has
\* succeeded, that user is no longer verified.
C36_DeletionClearsVerified ==
    [][(/\ resp'.op = "DeletePerson"
        /\ resp'.code = 200
        /\ people[resp'.ref].exists
        /\ people[resp'.ref].linked_user_id # "")
       => ~users'[people[resp'.ref].linked_user_id].is_verified
      ]_vars

----------------------------------------------------------------------------
(* Properties of the batches of the bulk import *)

\* C37: no batch the bulk import commits holds more writes than the
\* document store's batch limit: a step of a successful import writes at
\* most BatchLimit persons.
C37_ImportBatchesWithinLimit ==
    [][(resp'.op = "PopulateTreeFromText" /\ resp'.code = 201)
       => Cardinality({q \in PersonIds : people'[q] # people[q]}) <= BatchLimit
      ]_vars

----------------------------------------------------------------------------
(* Properties of the admins *)

\* C38: at every moment some user has the role admin.
C38_AlwaysAnAdmin ==
    \E u \in UserIds : users[u].exists /\ users[u].role = "admin"

----------------------------------------------------------------------------
(* Specification of the deletions with failing store calls: the persons of  *)
(* the initial tree are deleted by the admin and by the editor who created  *)
(* them, and any store call of the cascade or the primary delete may fail   *)

NextCascade ==
    \E r \in Procs :
        \/ \E u \in {"admin", "editor"}, pid \in {1, 2} : DeletePerson_Get(r, u, pid)
        \/ clearUserPersonLinks(r)
        \/ removeFromParentChildren_Query(r)
        \/ removeFromParentChildren_Update(r)
        \/ invalidateSuggestionsForPerson_Query(r)
        \/ invalidateSuggestionsForPerson_Update(r)
        \/ rejectIdentityClaimsForPerson_Query(r)
        \/ rejectIdentityClaimsForPerson_Update(r)
        \/ OnPersonDeleted_Failure(r)
        \/ DeletePerson_Delete(r)
        \/ DeletePerson_DeleteFails(r)

SpecCascade == InitSuggestion /\ [][NextCascade]_vars

\* C39: a failed store call of the cascade is followed by the rest of the
\* cascade: the deletion goes on without a response, it ends only at the
\* primary delete, and its response is a success exactly when the primary
\* delete succeeded: after a success the person is gone, and an error has
\* left the persons as they were.
C39_CascadeFailureContinues ==
    [][\A r \in Procs :
         (procs[r].pc # "idle" /\ procs[r].op = "DeletePerson" /\ procs'[r] # procs[r])
         => IF procs'[r].pc = "idle"
            THEN /\ procs[r].pc = "claims_update"
                 /\ Len(procs[r].todo) = 0
                 /\ resp'.op = "DeletePerson"
                 /\ resp'.ref = procs[r].pid
                 /\ resp'.code \in {200, 500}
                 /\ resp'.code = 200 => ~people'[procs[r].pid].exists
                 /\ resp'.code = 500 => people' = people
                 /\ people' # people => resp'.code = 200
            ELSE /\ resp' = NoResp
                 /\ procs'[r].op = "DeletePerson"
                 /\ procs'[r].pid = procs[r].pid
      ]_vars

\* a deletion has succeeded although a store call of its cascade had failed
C39_Witness ==
    /\ resp.op = "DeletePerson"
    /\ resp.code = 200
    /\ resp.ref \in history.failed
    /\ ~people[resp.ref].exists

----------------------------------------------------------------------------
(* Specification of deletions in a tree somebody edits: person 1 has the    *)
(* child 2 and person 3 is a root; the admin sets the children of person 3  *)
(* while persons 1 and 2 are deleted                                        *)

InitOrphan ==
    /\ people = [InitPeople EXCEPT ![3] = NewPerson("a", "editor")]
    /\ users = InitUsers
    /\ suggestions = [s \in SuggestionIds |->
           IF s = 1 THEN PendingSuggestion("edit", 2, "b", "contrib") ELSE NoSuggestion]
    /\ claims = [c \in ClaimIds |-> IF c = 1 THEN PendingClaim("viewer", 2) ELSE NoClaim]
    /\ permreqs = [q \in RequestIds |-> NoRequest]
    /\ procs = [r \in Procs |-> Idle]
    /\ nextPerson = 4
    /\ started = 0
    /\ execCount = [s \in SuggestionIds |-> 0]
    /\ deletedOK = {}
    /\ history = NoHistory
    /\ resp = NoResp
    /\ InitSSE

NextOrphan ==
    \E r \in Procs :
        \/ \E children \in {<<>>, <<2>>} :
             UpdatePerson_Get(r, "admin", 3, [name |-> <<>>, children |-> <<children>>])
        \/ UpdatePerson_Update(r)
        \/ \E u \in {"admin", "editor"}, pid \in {1, 2} : DeletePerson_Get(r, u, pid)
        \/ clearUserPersonLinks(r)
        \/ removeFromParentChildren_Query(r)
        \/ removeFromParentChildren_Update(r)
        \/ invalidateSuggestionsForPerson_Query(r)
        \/ invalidateSuggestionsForPerson_Update(r)
        \/ rejectIdentityClaimsForPerson_Query(r)
        \/ rejectIdentityClaimsForPerson_Update(r)
        \/ DeletePerson_Delete(r)

SpecOrphan == InitOrphan /\ [][NextOrphan]_vars

\* C40: a successful deletion of a person removes that person only: every
\* other person is left as it was, so each existing child of the deleted
\* person still exists with its own children unchanged, and each such child
\* is afterwards listed in the children of no person.
C40_ChildrenBecomeRoots ==
    [][\A r \in Procs :
         (/\ procs[r].pc = "claims_update"
          /\ procs'[r].pc = "idle"
          /\ resp'.op = "DeletePerson"
          /\ resp'.code = 200
          /\ people[procs[r].pid].exists)
         => LET P == procs[r].pid
                kids == {c \in PersonIds : /\ people[c].exists
                                           /\ c # P
                                           /\ \E i \in 1..Len(people[P].children) :
                                                people[P].children[i] = c}
            IN /\ ~people'[P].exists
               /\ \A q \in PersonIds \ {P} : people'[q] = people[q]
               /\ \A c \in kids :
                    /\ people'[c].exists
                    /\ people'[c].children = people[c].children
                    /\ \A q \in PersonIds :
                         people'[q].exists =>
                           \A i \in 1..Len(people'[q].children) :
                             people'[q].children[i] # c
      ]_vars

====
